---- MODULE Spec2Model ----
(***************************************************************************)
(* Model of the HTML canvas editor (canvas/src): the LLM response parser   *)
(* and patch engine (lib/differ.js), the zustand store (lib/store.js), the *)
(* streaming client (lib/llm.js) and the chat orchestrator                 *)
(* (components/ChatPanel.jsx, handleSend).                                 *)
(*                                                                         *)
(* A string is modelled as a sequence of lexemes: the pieces of text the   *)
(* regular expressions and prefix tests of the code can tell apart (the    *)
(* three fence markers, white space, prose, a JSON text, an HTML document  *)
(* text).  A DOM tree is the sequence of its elements in document order,   *)
(* each with its depth.                                                    *)
(***************************************************************************)
EXTENDS Integers, Sequences, FiniteSets, TLC

VARIABLES
    pages,             \* store.pages: sequence of [id, html]
    activePageId,      \* store.activePageId
    selectedElements,  \* store.selectedElements
    chatHistory,       \* store.chatHistory: page id -> sequence of messages
    streamingPageId,   \* store.streamingPageId (Null while idle)
    pageIdCounter,     \* _pageIdCounter of store.js
    streams,           \* the handleSend invocations awaiting streamCompletion
    abortRef,          \* abortRef.current: the invocation it aborts, 0 for null
    last,              \* the locals of the continuation that has just returned
    posted,            \* pages whose iframe has a canvas:clearSelection in transit
    turns,             \* number of handleSend invocations that have returned
    text,              \* pipeline harness: the response text
    parsed,            \* pipeline harness: parseLlmResponse(text)
    applied,           \* pipeline harness: applyDiff(DEFAULT_HTML, parsed.payload)
    docHtml,           \* patch engine: the html argument of applyDiff
    batch,             \* patch engine: the ops argument of applyDiff
    out,               \* patch engine: what applyDiff(docHtml, batch) did
    selectedEls,       \* selection bridge of one iframe: its selectedEls
    click,             \* selection bridge: the click event just handled
    broadcast,         \* selection bridge: the payloads the listener that ran
                       \* last posted to the parent, one per message
    hoveredEl,         \* selection bridge: its hoveredEl, 0 for null
    selMarks,          \* selection bridge: the elements bearing SEL_CLASS
    hoverMarks,        \* selection bridge: the elements bearing HOVER_CLASS
    received,          \* selection bridge: the message just handled
    hostMsg,           \* App: the message event its handler handled last
    synth              \* getSelector: the element it is called on, what it
                       \* returned and what the selector resolved to

engineVars == <<docHtml, batch, out>>
bridgeVars == <<selectedEls, click, broadcast, hoveredEl, selMarks, hoverMarks,
                received>>

vars == <<pages, activePageId, selectedElements, chatHistory, streamingPageId,
          pageIdCounter, streams, abortRef, last, posted, turns, text, parsed,
          applied, engineVars, bridgeVars, hostMsg, synth>>

storeVars == <<pages, activePageId, selectedElements, chatHistory,
               streamingPageId, pageIdCounter, streams, abortRef, last, posted,
               turns>>

Null == "null"
Undefined == "undefined"
\* the value null of streamingPageId (page ids are the numbers of page-N)
NoPage == 0

Min(S) == CHOOSE x \in S : \A y \in S : x <= y

(***************************************************************************)
(* JSON values, as JSON.parse returns them.                                *)
(***************************************************************************)
JNull == [j |-> "null"]
JNumber == [j |-> "number"]
JArray(items) == [j |-> "array", items |-> items]

\* An object; opType is typeof obj.op.
JObject(opType, op, selector, html, property, value, attr, txt, class, css) ==
    [j |-> "object", opType |-> opType, op |-> op, selector |-> selector,
     html |-> html, property |-> property, value |-> value, attr |-> attr,
     text |-> txt, class |-> class, css |-> css]

(***************************************************************************)
(* Lexemes of a string.                                                    *)
(***************************************************************************)
FenceJson == [lex |-> "fence-json"]
FenceHtml == [lex |-> "fence-html"]
Fence == [lex |-> "fence"]
WS == [lex |-> " "]
Prose == [lex |-> "prose"]
\* text that is not a JSON text (for instance a truncated array)
Garbage == [lex |-> "garbage"]
\* the JSON text of value v
JsonLex(v) == [lex |-> "json", val |-> v]
\* the text of an HTML document that starts with prefix; form tells the
\* text written by an author from the text produced by outerHTML
DocLex(prefix, form, tree) ==
    [lex |-> "doc", prefix |-> prefix, form |-> form, tree |-> tree]
\* the text "**Error:** <message>"
ErrorLex == [lex |-> "**Error:**"]

\* every fence marker (json, html, plain) contains three backticks
IsFence(l) == l.lex \in {"fence-json", "fence-html", "fence"}

RECURSIVE TrimStart(_)
TrimStart(s) ==
    IF s # <<>> /\ Head(s) = WS THEN TrimStart(Tail(s)) ELSE s

RECURSIVE TrimEnd(_)
TrimEnd(s) ==
    IF s # <<>> /\ s[Len(s)] = WS THEN TrimEnd(SubSeq(s, 1, Len(s) - 1)) ELSE s

\* String.prototype.trim
Trim(s) == TrimEnd(TrimStart(s))

NoMatch == [found |-> FALSE, capture |-> <<>>]

\* text.match of the fence pattern (three backticks, tag, lazy capture, three
\* backticks; flag i): the leftmost opening marker and,
\* the capture being lazy, the nearest three backticks after it.
FenceMatch(s, open) ==
    LET opens == {i \in 1..Len(s) : s[i] = open}
    IN  IF opens = {} THEN NoMatch
        ELSE LET i == Min(opens)
                 closers == {k \in (i + 1)..Len(s) : IsFence(s[k])}
             IN  IF closers = {} THEN NoMatch
                 ELSE [found |-> TRUE,
                       capture |-> SubSeq(s, i + 1, Min(closers) - 1)]

\* JSON.parse: throws unless the string is exactly one JSON text
JSONparse(s) ==
    IF Len(s) = 1 /\ s[1].lex = "json"
    THEN [ok |-> TRUE, val |-> s[1].val]
    ELSE [ok |-> FALSE, val |-> JNull]

\* typeof v.op is string; reading a property of null throws TypeError
TypeofOpIsString(v) ==
    CASE v.j = "null" -> [ok |-> FALSE, val |-> FALSE]
      [] v.j = "object" -> [ok |-> TRUE, val |-> v.opType = "string"]
      [] OTHER -> [ok |-> TRUE, val |-> FALSE]

ParseDiff(ops) == [type |-> "diff", ops |-> ops, html |-> <<>>]
ParseFull(html) == [type |-> "full", ops |-> <<>>, html |-> html]
ParseNull == [type |-> Null, ops |-> <<>>, html |-> <<>>]
\* an exception leaving parseLlmResponse
ParseThrow == [type |-> "throw", ops |-> <<>>, html |-> <<>>]

\* lines 17-24, the body of the try block of parseLlmResponse: "return" when
\* it returns the diff, "fall" when the condition is false, "throw" when
\* JSON.parse or the read of ops[0].op throws
JsonRule(capture) ==
    LET r == JSONparse(Trim(capture))
    IN  IF ~r.ok THEN "throw"
        ELSE IF r.val.j # "array" THEN "fall"
        ELSE IF Len(r.val.items) = 0 THEN "fall"
        ELSE IF ~TypeofOpIsString(r.val.items[1]).ok THEN "throw"
        ELSE IF TypeofOpIsString(r.val.items[1]).val THEN "return"
        ELSE "fall"

\* parseLlmResponse without its catch clause: a throw of the try block leaves
\* the function
JsonRuleNoCatch(outcome) == outcome

\* the empty catch clause of parseLlmResponse: a throw falls through
JsonRuleCatch(outcome) == IF outcome = "throw" THEN "fall" ELSE outcome

\* bare.startsWith(prefix), case-sensitive
StartsWith(s, prefix) ==
    s # <<>> /\ s[1].lex = "doc" /\ s[1].prefix = prefix

\* rules 2 to 4 of parseLlmResponse: the html fence, the bare document, null
ParseAfterJson(s) ==
    LET htmlFence == FenceMatch(s, FenceHtml)
        bare == Trim(s)
    IN  IF htmlFence.found
        THEN ParseFull(Trim(htmlFence.capture))
        ELSE IF StartsWith(bare, "<!DOCTYPE") \/ StartsWith(bare, "<html")
        THEN ParseFull(bare)
        ELSE ParseNull

parseLlmResponse(s) ==
    LET jsonFence == FenceMatch(s, FenceJson)
        outcome == IF jsonFence.found
                   THEN JsonRuleCatch(JsonRule(jsonFence.capture))
                   ELSE "fall"
    IN  CASE outcome = "return" ->
               ParseDiff(JSONparse(Trim(jsonFence.capture)).val.items)
          [] outcome = "throw" -> ParseThrow
          [] OTHER -> ParseAfterJson(s)

(***************************************************************************)
(* The DOM: a document is the sequence of its elements in document order   *)
(* (preorder); depth 0 is the documentElement.                             *)
(***************************************************************************)
\* selectors: a chain of simple selectors joined by one combinator,
\* a string that is not a selector, or a missing selector field
Simple(k, n) == [k |-> k, n |-> n]
Sel(comb, parts) == [k |-> "sel", comb |-> comb, parts |-> parts]
TagSel(n) == Sel(" ", <<Simple("tag", n)>>)
IdSel(n) == Sel(" ", <<Simple("id", n)>>)
ClassSel(n) == Sel(" ", <<Simple("class", n)>>)
InvalidSel == [k |-> "invalid"]
UndefinedSel == [k |-> "undefined"]

NoText == "no-text-node"

\* an element: text is its text node before its first child element, tail
\* its first text node after one, NoText where there is none
Element(tag, depth, id, classList, txt) ==
    [tag |-> tag, depth |-> depth, id |-> id, classList |-> classList,
     style |-> {}, attrs |-> {}, text |-> txt, tail |-> NoText, css |-> <<>>]

\* index of the last element of the subtree rooted at i
SubtreeEnd(t, i) ==
    LET after == {k \in (i + 1)..Len(t) : t[k].depth <= t[i].depth}
    IN  IF after = {} THEN Len(t) ELSE Min(after) - 1

\* index of the parent element of i, 0 for the documentElement
Parent(t, i) ==
    LET up == {k \in 1..(i - 1) : t[k].depth = t[i].depth - 1}
    IN  IF up = {} THEN 0 ELSE CHOOSE k \in up : \A m \in up : m <= k

MatchesSimple(e, p) ==
    CASE p.k = "tag" -> e.tag = p.n
      [] p.k = "id" -> e.id = p.n
      [] p.k = "class" -> p.n \in e.classList
      [] p.k = "any" -> TRUE
      [] OTHER -> FALSE

RECURSIVE Ancestors(_, _)
Ancestors(t, i) ==
    IF Parent(t, i) = 0 THEN {}
    ELSE {Parent(t, i)} \cup Ancestors(t, Parent(t, i))

\* tag:nth-of-type(idx)
NthOfType(tag, idx) == [k |-> "nth", n |-> tag, idx |-> idx]

\* the children of the parent of i that have the tag of i, i included
SameTagSiblings(t, i) ==
    {k \in 1..Len(t) : Parent(t, k) = Parent(t, i) /\ t[k].tag = t[i].tag}

\* the 1-based rank of i among the siblings of its tag
RankOfType(t, i) == Cardinality({k \in SameTagSiblings(t, i) : k <= i})

\* does element i of t match the simple selector p
MatchesAt(t, i, p) ==
    IF p.k = "nth"
    THEN t[i].tag = p.n /\ Parent(t, i) # 0 /\ RankOfType(t, i) = p.idx
    ELSE MatchesSimple(t[i], p)

\* does element i match the chain parts[1..n]
RECURSIVE MatchesChain(_, _, _, _, _)
MatchesChain(t, i, comb, parts, n) ==
    /\ MatchesAt(t, i, parts[n])
    /\ \/ n = 1
       \/ /\ comb = ">"
          /\ Parent(t, i) # 0
          /\ MatchesChain(t, Parent(t, i), comb, parts, n - 1)
       \/ /\ comb = " "
          /\ \E a \in Ancestors(t, i) : MatchesChain(t, a, comb, parts, n - 1)

\* the elements querySelectorAll returns, in document order
MatchSet(t, selector) ==
    IF selector.k # "sel" THEN {}
    ELSE {i \in 1..Len(t) :
            MatchesChain(t, i, selector.comb, selector.parts,
                         Len(selector.parts))}

\* a lookup that falls back to the documentElement when nothing matches
_selOrRoot(t, selector) ==
    IF selector.k = "invalid" \/ MatchSet(t, selector) = {} THEN 1
    ELSE Min(MatchSet(t, selector))

\* _sel: doc.querySelector in a try; 0 stands for null
_sel(t, selector) ==
    IF selector.k = "invalid" THEN 0
    ELSE IF MatchSet(t, selector) = {} THEN 0
    ELSE Min(MatchSet(t, selector))

\* a lookup of all matches that stops at the first one
_selAllFirstOnly(t, selector) ==
    IF selector.k = "invalid" \/ MatchSet(t, selector) = {} THEN {}
    ELSE {Min(MatchSet(t, selector))}

\* _selAll: doc.querySelectorAll in a try
_selAll(t, selector) ==
    IF selector.k = "invalid" THEN {} ELSE MatchSet(t, selector)

\* the tree without the subtree rooted at i
RemoveSubtree(t, i) ==
    SubSeq(t, 1, i - 1) \o SubSeq(t, SubtreeEnd(t, i) + 1, Len(t))

\* a parsed fragment placed at depth d
AtDepth(frag, d) ==
    [k \in 1..Len(frag) |-> [frag[k] EXCEPT !.depth = frag[k].depth + d]]

\* the fragment written over the elements from index i on
InsertOver(t, i, frag, d) ==
    SubSeq(t, 1, i - 1) \o AtDepth(frag, d) \o SubSeq(t, i + Len(frag), Len(t))

\* the tree with the fragment inserted so that its first element gets index i
InsertAt(t, i, frag, d) ==
    SubSeq(t, 1, i - 1) \o AtDepth(frag, d) \o SubSeq(t, i, Len(t))

SetPair(pairs, name, value) ==
    {p \in pairs : p[1] # name} \cup {<<name, value>>}

(***************************************************************************)
(* differ.js: _applyOp, _getOrCreateStyle, applyDiff, applyLlmResponse     *)
(***************************************************************************)
\* the style properties a CSSStyleDeclaration accepts in this model
CSSProperties == {"color", "fontSize", "backgroundColor"}

\* an assignment that clears the property when it already has the value
SetStyleToggling(e, property, value) ==
    IF <<property, value>> \in e.style
    THEN [e EXCEPT !.style = {p \in e.style : p[1] # property}]
    ELSE [e EXCEPT !.style = {p \in e.style : p[1] # property}
                                \cup {<<property, value>>}]

\* el.style[property] = value: an unknown property or an invalid value is
\* ignored, the empty string removes the property
SetStyle(e, property, value) ==
    IF property \notin CSSProperties \/ value = Undefined THEN e
    ELSE IF value = ""
    THEN [e EXCEPT !.style = {p \in e.style : p[1] # property}]
    ELSE [e EXCEPT !.style = SetPair(e.style, property, value)]

\* el.setAttribute(attr, value); the id attribute is the id field
SetAttribute(e, attr, value) ==
    IF attr = "id" THEN [e EXCEPT !.id = value]
    ELSE [e EXCEPT !.attrs = SetPair(e.attrs, attr, value)]

Returned(t, warns) == [ok |-> TRUE, tree |-> t, warns |-> warns]
Thrown(t) == [ok |-> FALSE, tree |-> t, warns |-> 0]

\* one rule "selector { body }" of a style sheet text, or raw text
CssRule(selector, body) == [kind |-> "rule", selector |-> selector, body |-> body]
CssRaw(css) == [kind |-> "raw", selector |-> UndefinedSel, body |-> css]

\* the pattern escapeRegex(selector) \s* { [^}]* } is not anchored: it
\* matches inside every rule whose selector text ends with the selector
RulePatternMatches(rule, selector) ==
    /\ rule.kind = "rule"
    /\ rule.selector.k = selector.k
    /\ IF selector.k # "sel" THEN TRUE
       ELSE /\ Len(selector.parts) <= Len(rule.selector.parts)
            /\ (Len(selector.parts) < Len(rule.selector.parts)
                  => rule.selector.comb = selector.comb
                     \/ Len(selector.parts) = 1)
            /\ SubSeq(rule.selector.parts,
                      Len(rule.selector.parts) - Len(selector.parts) + 1,
                      Len(rule.selector.parts)) = selector.parts

\* _getOrCreateStyle: the index of the last style element, created as the
\* last child of head (or of documentElement) when there is none; ok is
\* FALSE when neither exists and appendChild is called on null
_getOrCreateStyle(t) ==
    LET styles == {i \in 1..Len(t) : t[i].tag = "style"}
        heads == {i \in 1..Len(t) : t[i].tag = "head" /\ t[i].depth = 1}
        host == IF heads # {} THEN Min(heads) ELSE IF t # <<>> THEN 1 ELSE 0
    IN  IF styles # {}
        THEN [ok |-> TRUE, tree |-> t,
              at |-> CHOOSE i \in styles : \A k \in styles : k <= i]
        ELSE IF host = 0 THEN [ok |-> FALSE, tree |-> t, at |-> 0]
        ELSE [ok |-> TRUE,
              tree |-> InsertAt(t, SubtreeEnd(t, host) + 1,
                                <<Element("style", 0, "", {}, NoText)>>,
                                t[host].depth + 1),
              at |-> SubtreeEnd(t, host) + 1]

replaceCSS(t, op) ==
    LET g == _getOrCreateStyle(t)
        css == g.tree[g.at].css
        hit == \E k \in 1..Len(css) : RulePatternMatches(css[k], op.selector)
        replaced == [k \in 1..Len(css) |->
                       IF RulePatternMatches(css[k], op.selector)
                       THEN CssRule(css[k].selector, op.css) ELSE css[k]]
    IN  IF ~g.ok THEN Thrown(t)
        \* escapeRegex(undefined) throws after the style element was created
        ELSE IF op.selector.k = "undefined" THEN Thrown(g.tree)
        ELSE IF hit
        THEN Returned([g.tree EXCEPT ![g.at].css = replaced], 0)
        ELSE Returned([g.tree EXCEPT ![g.at].css =
                          Append(css, CssRule(op.selector, op.css))], 0)

injectStyle(t, op) ==
    LET g == _getOrCreateStyle(t)
    IN  IF ~g.ok THEN Thrown(t)
        ELSE Returned([g.tree EXCEPT ![g.at].css =
                          Append(g.tree[g.at].css, CssRaw(op.css))], 0)

\* el.textContent = op.text whatever the children of el
replaceTextContent(t, el, op) ==
    SubSeq(t, 1, el - 1)
    \o <<[t[el] EXCEPT !.text = IF op.text = "" THEN NoText ELSE op.text,
                       !.tail = NoText]>>
    \o SubSeq(t, SubtreeEnd(t, el) + 1, Len(t))

\* lines 117-127: textContent of an element without child elements, else
\* the first child node that is a text node
replaceText(t, el, op) ==
    IF SubtreeEnd(t, el) = el
    THEN [t EXCEPT ![el].text = IF op.text = "" THEN NoText ELSE op.text,
                   ![el].tail = NoText]
    ELSE IF t[el].text # NoText THEN [t EXCEPT ![el].text = op.text]
    ELSE IF t[el].tail # NoText THEN [t EXCEPT ![el].tail = op.text]
    ELSE t

\* _applyOp(doc, op) on the element tree of doc
_applyOp(t, op) ==
    LET el == _sel(t, op.selector)
        els == _selAll(t, op.selector)
    IN  CASE op.j = "null" -> Thrown(t)
          [] op.j # "object" \/ op.opType # "string" -> Returned(t, 1)
          [] op.op = "replace" ->
               IF el = 0 THEN Returned(t, 1)
               ELSE IF Parent(t, el) = 0 THEN Thrown(t)
               ELSE Returned(InsertAt(RemoveSubtree(t, el), el, op.html,
                                      t[el].depth), 0)
          [] op.op = "replaceStyle" ->
               IF els = {} THEN Returned(t, 1)
               ELSE Returned([i \in 1..Len(t) |->
                                IF i \in els
                                THEN SetStyle(t[i], op.property, op.value)
                                ELSE t[i]], 0)
          [] op.op = "replaceAttr" ->
               IF el = 0 THEN Returned(t, 0)
               ELSE IF op.attr = "" THEN Thrown(t)
               ELSE Returned([t EXCEPT ![el] =
                                SetAttribute(t[el], op.attr, op.value)], 0)
          [] op.op = "replaceText" ->
               IF el = 0 THEN Returned(t, 0)
               ELSE Returned(replaceText(t, el, op), 0)
          [] op.op = "addClass" ->
               IF el = 0 THEN Returned(t, 0)
               ELSE IF op.class = "" THEN Thrown(t)
               ELSE Returned([t EXCEPT ![el].classList = @ \cup {op.class}], 0)
          [] op.op = "removeClass" ->
               IF el = 0 THEN Returned(t, 0)
               ELSE IF op.class = "" THEN Thrown(t)
               ELSE Returned([t EXCEPT ![el].classList = @ \ {op.class}], 0)
          [] op.op = "insertBefore" ->
               IF el = 0 THEN Returned(t, 0)
               ELSE IF Parent(t, el) = 0 THEN Thrown(t)
               ELSE Returned(InsertAt(t, el, op.html, t[el].depth), 0)
          [] op.op = "insertAfter" ->
               IF el = 0 THEN Returned(t, 0)
               ELSE IF Parent(t, el) = 0 THEN Thrown(t)
               ELSE Returned(InsertAt(t, SubtreeEnd(t, el) + 1, op.html,
                                      t[el].depth), 0)
          [] op.op = "remove" ->
               IF el = 0 THEN Returned(t, 0)
               ELSE Returned(RemoveSubtree(t, el), 0)
          [] op.op = "replaceCSS" -> replaceCSS(t, op)
          [] op.op = "injectStyle" -> injectStyle(t, op)
          [] OTHER -> Returned(t, 1)

\* what the HTML parser builds from a string without any element
EmptyDocument ==
    <<Element("html", 0, "", {}, NoText), Element("head", 1, "", {}, NoText),
      Element("body", 1, "", {}, NoText)>>

\* new DOMParser().parseFromString(html, "text/html")
parseFromString(html) ==
    LET docs == {i \in 1..Len(html) : html[i].lex = "doc"}
    IN  IF docs = {} THEN EmptyDocument ELSE html[Min(docs)].tree

\* "<!DOCTYPE html>\n" + doc.documentElement.outerHTML
Serialize(t) == <<DocLex("<!DOCTYPE", "serialized", t)>>

\* the catch clause of the loop of applyDiff: console.warn reads op.op and
\* op.selector, which throws again when op is null
WarnThrows(op) == op.j = "null"

\* one pass of the for loop of applyDiff (lines 48-59): r is what _applyOp
\* did with op; st is [tree, attempted, warns, ok], ok = FALSE once an
\* exception has left the loop
TryOp(st, r, op) ==
    [tree |-> r.tree,
     attempted |-> st.attempted + 1,
     warns |-> st.warns + (IF r.ok THEN r.warns ELSE 1),
     ok |-> r.ok \/ ~WarnThrows(op)]

\* the loop taking the operations from the last one to the first
RECURSIVE ApplyOpsBackwards(_, _, _)
ApplyOpsBackwards(st, ops, k) ==
    IF k > Len(ops) \/ ~st.ok THEN st
    ELSE ApplyOpsBackwards(TryOp(st, _applyOp(st.tree, ops[Len(ops) + 1 - k]),
                                 ops[Len(ops) + 1 - k]), ops, k + 1)

\* the for loop of applyDiff from operation k on
RECURSIVE ApplyOps(_, _, _)
ApplyOps(st, ops, k) ==
    IF k > Len(ops) \/ ~st.ok THEN st
    ELSE ApplyOps(TryOp(st, _applyOp(st.tree, ops[k]), ops[k]), ops, k + 1)

\* line 61 of applyDiff, reached with the state st the loop ended in
ReturnOuterHTML(html, st) ==
    IF ~st.ok
    THEN [ok |-> FALSE, html |-> html, attempted |-> st.attempted,
          warns |-> st.warns]
    \* doc.documentElement is null once the root was removed
    ELSE IF st.tree = <<>>
    THEN [ok |-> FALSE, html |-> html, attempted |-> st.attempted,
          warns |-> st.warns]
    ELSE [ok |-> TRUE, html |-> Serialize(st.tree),
          attempted |-> st.attempted, warns |-> st.warns]

\* applyDiff(html, ops): ok = FALSE when it throws to its caller
applyDiff(html, ops) ==
    ReturnOuterHTML(html,
                    ApplyOps([tree |-> parseFromString(html), attempted |-> 0,
                              warns |-> 0, ok |-> TRUE], ops, 1))

\* lines 214-215 of applyLlmResponse, d being what applyDiff did
DiffResult(currentHtml, d) ==
    IF d.ok THEN [newHtml |-> d.html, type |-> "diff"]
    ELSE [newHtml |-> currentHtml, type |-> "throw"]

\* lines 212-215 of applyLlmResponse, p being the parsed response
ApplyParsed(currentHtml, p) ==
    CASE p.type = Null -> [newHtml |-> currentHtml, type |-> "noop"]
      [] p.type = "full" -> [newHtml |-> p.html, type |-> "full"]
      [] p.type = "throw" -> [newHtml |-> currentHtml, type |-> "throw"]
      [] OTHER -> DiffResult(currentHtml, applyDiff(currentHtml, p.ops))

\* applyLlmResponse(currentHtml, llmText); type "throw" when applyDiff throws
applyLlmResponse(currentHtml, llmText) ==
    ApplyParsed(currentHtml, parseLlmResponse(llmText))

(***************************************************************************)
(* Data of the model                                                       *)
(***************************************************************************)
WsText == " "

\* the rules of the style block of DEFAULT_HTML that have a plain selector
DefaultCss ==
    <<CssRule(TagSel("body"), "font-family"),
      CssRule(TagSel("h1"), "font-size: 2rem"),
      CssRule(TagSel("p"), "font-size: 1rem"),
      CssRule(ClassSel("card"), "margin-top"),
      CssRule(Sel(" ", <<Simple("class", "card"), Simple("tag", "h2")>>),
              "font-size: 1.2rem"),
      CssRule(Sel(" ", <<Simple("class", "card"), Simple("tag", "p")>>),
              "font-size: 0.93rem"),
      CssRule(ClassSel("btn"), "margin-top")>>

\* the element tree of DEFAULT_HTML
DefaultTree ==
    <<Element("html", 0, "", {}, WsText),
      Element("head", 1, "", {}, WsText),
      Element("meta", 2, "", {}, NoText),
      Element("meta", 2, "", {}, NoText),
      Element("title", 2, "", {}, "My Page"),
      [Element("style", 2, "", {}, NoText) EXCEPT !.css = DefaultCss],
      Element("body", 1, "", {}, WsText),
      Element("h1", 2, "", {}, "Hello, Canvas!"),
      Element("p", 2, "", {}, "This is your first HTML page."),
      Element("div", 2, "", {"card"}, WsText),
      Element("h2", 3, "", {}, "Getting Started"),
      Element("p", 3, "", {}, "Select one or more elements"),
      Element("button", 3, "", {"btn"}, "Click me")>>

DEFAULT_HTML == <<DocLex("<!DOCTYPE", "authored", DefaultTree)>>

\* the operations of the patch lists the modelled LLM replies with
OpReplaceText(selector, txt) ==
    JObject("string", "replaceText", selector, <<>>, Undefined, Undefined,
            Undefined, txt, Undefined, Undefined)
OpReplaceStyle(selector, property, value) ==
    JObject("string", "replaceStyle", selector, <<>>, property, value,
            Undefined, Undefined, Undefined, Undefined)
OpAddClass(selector, class) ==
    JObject("string", "addClass", selector, <<>>, Undefined, Undefined,
            Undefined, Undefined, class, Undefined)
OpRemove(selector) ==
    JObject("string", "remove", selector, <<>>, Undefined, Undefined,
            Undefined, Undefined, Undefined, Undefined)
OpUnknown(op) ==
    JObject("string", op, UndefinedSel, <<>>, Undefined, Undefined,
            Undefined, Undefined, Undefined, Undefined)
OpWithoutOp ==
    JObject("undefined", Undefined, TagSel("h1"), <<>>, Undefined, Undefined,
            Undefined, Undefined, Undefined, Undefined)

\* [{"op":"replaceText","selector":"h1","text":"Hi"}]
PatchText == JArray(<<OpReplaceText(TagSel("h1"), "Hi")>>)
\* a list with a null after its first operation
PatchWithNull ==
    JArray(<<OpAddClass(TagSel("h1"), "big"), JNull,
             OpAddClass(TagSel("p"), "small")>>)
\* a reply that is a whole document
ReplyTree ==
    <<Element("html", 0, "", {}, NoText), Element("head", 1, "", {}, NoText),
      Element("body", 1, "", {}, NoText), Element("h1", 2, "", {}, "New")>>
ReplyDoc == DocLex("<!DOCTYPE", "authored", ReplyTree)

(***************************************************************************)
(* Bounds                                                                  *)
(***************************************************************************)
\* pages ever created
MaxPages == 2
\* handleSend invocations that run to their end
MaxTurns == 1
\* segments (blocks, documents, prose) of a response text
MaxSegments == 2

(***************************************************************************)
(* store.js                                                                *)
(***************************************************************************)
PageIds(ps) == {ps[i].id : i \in 1..Len(ps)}

\* pages.find((p) => p.id === id): the index, 0 when undefined
FindPage(ps, id) ==
    IF id \in PageIds(ps) THEN Min({i \in 1..Len(ps) : ps[i].id = id}) ELSE 0

\* createPage(name, html) for the ids the counter hands out; the name is
\* "Page 1" or the name addPage makes from the number of pages, whose
\* number is not tracked
createPage(id) == [id |-> id, name |-> "Page N", html |-> DEFAULT_HTML]

Message(role, content) == [role |-> role, content |-> content]

\* s.chatHistory[pageId] ?? []
HistoryOf(ch, pageId) == IF pageId \in DOMAIN ch THEN ch[pageId] ELSE <<>>

pushMessage(ch, pageId, msg) ==
    [k \in DOMAIN ch \cup {pageId} |->
        IF k = pageId THEN Append(HistoryOf(ch, pageId), msg) ELSE ch[k]]

\* an update that appends the content to the content of the message
appendToLastAssistantMessage(ch, pageId, content) ==
    LET history == HistoryOf(ch, pageId)
        idx == {i \in 1..Len(history) : history[i].role = "assistant"}
    IN  [k \in DOMAIN ch \cup {pageId} |->
           IF k # pageId THEN ch[k]
           ELSE IF idx = {} THEN history
           ELSE [history EXCEPT ![CHOOSE i \in idx : \A m \in idx : m <= i] =
                   [@ EXCEPT !.content = @ \o content]]]

updateLastAssistantMessage(ch, pageId, content) ==
    LET history == HistoryOf(ch, pageId)
        idx == {i \in 1..Len(history) : history[i].role = "assistant"}
        updated == IF idx = {} THEN history
                   ELSE [history EXCEPT
                           ![CHOOSE i \in idx : \A k \in idx : k <= i].content
                              = content]
    IN  [k \in DOMAIN ch \cup {pageId} |->
            IF k = pageId THEN updated ELSE ch[k]]

updatePageHtml(ps, id, html) ==
    [i \in 1..Len(ps) |->
        IF ps[i].id = id THEN [ps[i] EXCEPT !.html = html] ELSE ps[i]]

\* clearSelectionInIframe(pageId): posts only to a registered iframe
clearSelectionInIframe(ps, msgs, pageId) ==
    IF pageId \in PageIds(ps) THEN msgs \cup {pageId} ELSE msgs

\* the part of the store a handleSend continuation reads and writes
Store == [pages |-> pages, selectedElements |-> selectedElements,
          chatHistory |-> chatHistory, posted |-> posted]

(***************************************************************************)
(* ChatPanel.jsx: handleSend                                               *)
(***************************************************************************)
\* the early return without its test of streamingPageId
SendRejectedWhileIdleOnly(input, page, streaming) ==
    input = "" \/ page = 0

\* line 59: the early return of handleSend
SendRejected(input, page, streaming) ==
    input = "" \/ page = 0 \/ streaming # NoPage

\* the stale read: the document captured in step 3, when the turn started
StaleHtml(st, s) == s.currentHtml

\* lines 119-121 and 135-137: the document the response is applied to
FreshHtml(st, s) ==
    IF FindPage(st.pages, s.pid) # 0
    THEN st.pages[FindPage(st.pages, s.pid)].html
    ELSE s.currentHtml

\* lines 124-129 and 140-144: replace the document and clear the selection
Replace(st, s, newHtml) ==
    [st EXCEPT !.pages = updatePageHtml(st.pages, s.pid, newHtml),
               !.posted = clearSelectionInIframe(st.pages, st.posted, s.pid),
               !.selectedElements = <<>>]

\* a handler without the test of line 124: every response replaces
UseResponseAlways(st, s, r) ==
    IF r.type = "throw" THEN [store |-> st, err |-> "TypeError", type |-> "none"]
    ELSE [store |-> Replace(st, s, r.newHtml), err |-> "none", type |-> r.type]

\* lines 122-129 and 139-145: r is what applyLlmResponse returned, or type
\* "throw" when it threw; a type other than noop replaces the document
UseResponse(st, s, r) ==
    CASE r.type = "throw" -> [store |-> st, err |-> "TypeError", type |-> "none"]
      [] r.type = "noop" -> [store |-> st, err |-> "none", type |-> "noop"]
      [] OTHER -> [store |-> Replace(st, s, r.newHtml), err |-> "none",
                   type |-> r.type]

\* lines 118-129: the statements of the try block after the await; err is
\* the name of the exception that leaves them, "none" when they complete
Step4(st, s) ==
    UseResponse(st, s, applyLlmResponse(FreshHtml(st, s), s.accumulated))

\* the identifier accumulated inside the catch clause: it is declared with
\* let inside the try block (line 106), so it is not in scope in the catch
\* block and reading it (line 138) throws ReferenceError
AccumulatedInCatch(s) == [ok |-> FALSE, val |-> <<>>]

\* a catch clause that applies the accumulated text whatever the exception
CatchClauseApplying(st, s, errName) ==
    UseResponse(st, s, applyLlmResponse(FreshHtml(st, s), s.accumulated))

\* lines 130-146: the catch clause, entered with exception name errName
CatchClause(st, s, errName) ==
    LET acc == AccumulatedInCatch(s)
    IN  IF errName # "AbortError"
        THEN [store |-> [st EXCEPT !.chatHistory =
                            updateLastAssistantMessage(st.chatHistory, s.pid,
                                                       <<ErrorLex>>)],
              err |-> "none", type |-> "none"]
        ELSE IF ~acc.ok
        THEN [store |-> st, err |-> "ReferenceError", type |-> "none"]
        ELSE IF acc.val = <<>>
        THEN [store |-> st, err |-> "none", type |-> "none"]
        ELSE UseResponse(st, s, applyLlmResponse(FreshHtml(st, s), acc.val))

\* a reset placed after the catch clause instead of in a finally clause: an
\* exception that leaves the catch clause skips it
ResetAfterCatch(pid, err) == IF err = "none" THEN NoPage ELSE pid

\* lines 147-151: the finally clause runs on every path out of try and catch
FinallyStreamingPage(pid, err) == NoPage

\* tried is what the try block did: an exception that left it enters the
\* catch clause
Caught(s, tried) ==
    IF tried.err = "none" THEN tried
    ELSE CatchClause(tried.store, s, tried.err)

\* everything handleSend does once streamCompletion has settled: settled is
\* "none" when it resolved, else the name of the exception it rejected with
Settle(st, s, settled) ==
    Caught(s, IF settled = "none" THEN Step4(st, s)
              ELSE [store |-> st, err |-> settled, type |-> "none"])

(***************************************************************************)
(* The editor: store, chat turn, stream, properties panel                  *)
(***************************************************************************)
\* the responses of the modelled LLM, each as the sequence of the deltas
\* streamCompletion hands to onToken: a patch block in two deltas, a patch
\* block whose list holds a null, and a bare document
Replies ==
    {<<(<<Prose, FenceJson, JsonLex(PatchText)>>), (<<Fence>>)>>,
     <<(<<FenceJson, JsonLex(PatchWithNull), Fence>>)>>,
     <<(<<ReplyDoc>>)>>}

\* the payloads of the canvas:selection messages the modelled iframes send
Payloads ==
    {<<[selector |-> TagSel("h1")], [selector |-> ClassSel("btn")]>>}

NoTurn ==
    [outcome |-> "none", pid |-> NoPage, accumulated |-> <<>>,
     currentHtml |-> <<>>, exists |-> FALSE, before |-> <<>>, after |-> <<>>,
     type |-> "none", err |-> "none"]

harnessVars == <<text, parsed, applied, engineVars, bridgeVars, hostMsg,
                 synth>>

\* applyDiff has not been called
NotRun ==
    [done |-> FALSE, ok |-> TRUE, html |-> <<>>, attempted |-> 0, warns |-> 0]
\* no click has been handled
NoClick == [handled |-> FALSE, el |-> 0, multi |-> FALSE, before |-> <<>>]

\* the patch engine and the selection bridge at rest
EngineAtRest == docHtml = <<>> /\ batch = <<>> /\ out = NotRun
\* a message event: data is FALSE for an event without data
NoData == [data |-> FALSE, type |-> Undefined]
Data(type) == [data |-> TRUE, type |-> type]
\* no message has been handled
NoMessage ==
    [handled |-> FALSE, msg |-> NoData, before |-> <<>>, marks |-> {},
     hovered |-> 0]

\* a message event of the host window: data is FALSE for an event without
\* data, type is Undefined for data without a type
NoHostData == [data |-> FALSE, type |-> Undefined, payload |-> <<>>]
HostData(type, payload) == [data |-> TRUE, type |-> type, payload |-> payload]
\* what the handler of App reads and writes
HostState(ps, active, selected) ==
    [pages |-> ps, activePageId |-> active, selectedElements |-> selected]
\* the handler of App has not run
NoHostMessage ==
    [handled |-> FALSE, msg |-> NoHostData, source |-> 0,
     before |-> HostState(<<>>, 0, <<>>), after |-> HostState(<<>>, 0, <<>>)]
HostAtRest == hostMsg = NoHostMessage

\* getSelector has not been called
NoSynthesis ==
    [stage |-> "none", tree |-> <<>>, el |-> 0, text |-> <<>>, resolved |-> 0,
     matches |-> {}]
SynthAtRest == synth = NoSynthesis

BridgeAtRest ==
    /\ selectedEls = <<>>
    /\ click = NoClick
    /\ broadcast = <<>>
    /\ hoveredEl = 0
    /\ selMarks = {}
    /\ hoverMarks = {}
    /\ received = NoMessage

Init ==
    /\ pages = <<createPage(1)>>
    /\ activePageId = 1
    /\ selectedElements = <<>>
    /\ chatHistory = [k \in {1} |-> <<>>]
    /\ streamingPageId = NoPage
    /\ pageIdCounter = 2
    /\ streams = {}
    /\ abortRef = 0
    /\ last = NoTurn
    /\ posted = {}
    /\ turns = 0
    /\ text = <<>>
    /\ parsed = [type |-> "unset", ops |-> <<>>, html |-> <<>>]
    /\ applied = [done |-> FALSE, ok |-> TRUE, html |-> <<>>, attempted |-> 0,
                  warns |-> 0]
    /\ EngineAtRest
    /\ BridgeAtRest
    /\ HostAtRest
    /\ SynthAtRest

\* the content of the system message
SYSTEM_PROMPT == <<[lex |-> "system-prompt"]>>

\* historyForApi (lines 66-69): role and content of every message of the
\* history, in its order
historyForApi(history) ==
    [i \in 1..Len(history) |->
        [role |-> history[i].role, content |-> history[i].content]]

\* buildUserMessage(text, selSnapshot, currentHtml): the selected elements,
\* the document and the request, as one text
buildUserMessage(userText, selected, currentHtml) ==
    <<[lex |-> "user-message", selected |-> selected, html |-> currentHtml,
       request |-> userText]>>

\* a message list in which the new instruction is also a turn of the
\* history
ApiMessagesWithTurnTwice(history, content) ==
    <<Message("system", SYSTEM_PROMPT)>> \o historyForApi(history)
      \o <<Message("user", <<Prose>>), Message("user", content)>>

\* the messages array of step 3 (lines 91-101), history being what
\* historyForApi was built from and content the content of the new turn
ApiMessages(history, content) ==
    <<Message("system", SYSTEM_PROMPT)>> \o historyForApi(history)
      \o <<Message("user", content)>>

\* handleSend, up to the await of streamCompletion (lines 57-116)
HandleSend(input, reply) ==
    LET page == FindPage(pages, activePageId)
        pid == activePageId
    IN  IF SendRejected(input, page, streamingPageId)
        THEN UNCHANGED vars
        ELSE /\ turns < MaxTurns
             /\ chatHistory' =
                  pushMessage(pushMessage(chatHistory, pid,
                                          Message("user", <<Prose>>)),
                              pid, Message("assistant", <<>>))
             /\ streamingPageId' = pid
             /\ streams' = streams \cup
                  {[id |-> turns + Cardinality(streams) + 1, pid |-> pid,
                    currentHtml |-> pages[page].html, accumulated |-> <<>>,
                    rest |-> reply, aborted |-> FALSE]}
             /\ abortRef' = turns + Cardinality(streams) + 1
             /\ last' = NoTurn
             /\ UNCHANGED <<pages, activePageId, selectedElements,
                            pageIdCounter, posted, turns, harnessVars>>

\* onToken (lines 112-115), called by streamCompletion for one delta
Token(s) ==
    /\ s \in streams
    /\ ~s.aborted
    /\ s.rest # <<>>
    /\ streams' = (streams \ {s}) \cup
          {[s EXCEPT !.accumulated = s.accumulated \o Head(s.rest),
                     !.rest = Tail(s.rest)]}
    /\ chatHistory' = updateLastAssistantMessage(chatHistory, s.pid,
                                                 s.accumulated \o Head(s.rest))
    /\ last' = NoTurn
    /\ UNCHANGED <<pages, activePageId, selectedElements, streamingPageId,
                   pageIdCounter, abortRef, posted, turns, harnessVars>>

\* the store and the refs once handleSend has run to its end: r is what try
\* and catch did, and the finally clause follows
Finished(s, r, outcome) ==
    LET at == FindPage(pages, s.pid)
    IN  /\ pages' = r.store.pages
        /\ selectedElements' = r.store.selectedElements
        /\ chatHistory' = r.store.chatHistory
        /\ posted' = r.store.posted
        /\ streamingPageId' = FinallyStreamingPage(s.pid, r.err)
        /\ abortRef' = 0
        /\ streams' = streams \ {s}
        /\ last' = [outcome |-> outcome, pid |-> s.pid,
                    accumulated |-> s.accumulated,
                    currentHtml |-> s.currentHtml,
                    exists |-> at # 0,
                    before |-> IF at # 0 THEN pages[at].html ELSE <<>>,
                    after |-> IF at # 0 THEN r.store.pages[at].html ELSE <<>>,
                    type |-> r.type, err |-> r.err]
        /\ turns' = turns + 1
        /\ UNCHANGED <<activePageId, pageIdCounter, harnessVars>>

\* the continuation of handleSend once streamCompletion has settled
Finish(s, settled, outcome) ==
    Finished(s, Settle(Store, s, settled), outcome)

\* streamCompletion returns: the reader reported done
StreamDone(s) ==
    /\ s \in streams
    /\ ~s.aborted
    /\ s.rest = <<>>
    /\ Finish(s, "none", "completed")

\* streamCompletion throws Error: no API key, HTTP status, transport
StreamFail(s) ==
    /\ s \in streams
    /\ ~s.aborted
    /\ Finish(s, "Error", "failed")

\* handleStop (lines 53-55), reachable while the active page is streaming
HandleStop ==
    /\ streamingPageId # NoPage
    /\ streamingPageId = activePageId
    /\ abortRef # 0
    /\ streams' = {IF s.id = abortRef THEN [s EXCEPT !.aborted = TRUE] ELSE s :
                     s \in streams}
    /\ last' = NoTurn
    /\ UNCHANGED <<pages, activePageId, selectedElements, chatHistory,
                   streamingPageId, pageIdCounter, abortRef, posted,
                   turns, harnessVars>>

\* fetch or reader.read rejects with AbortError after abort()
StreamAborted(s) ==
    /\ s \in streams
    /\ s.aborted
    /\ Finish(s, "AbortError", "cancelled")

\* applyStyle of PropertiesPanel.jsx (lines 55-67); the panel is rendered
\* only while elements are selected
ApplyStyle(property, value) ==
    LET page == FindPage(pages, activePageId)
        ops == [i \in 1..Len(selectedElements) |->
                  OpReplaceStyle(selectedElements[i].selector, property, value)]
    IN  /\ selectedElements # <<>>
        /\ page # 0
        /\ pages' = updatePageHtml(pages, activePageId,
                                   applyDiff(pages[page].html, ops).html)
        /\ last' = NoTurn
        /\ UNCHANGED <<activePageId, selectedElements, chatHistory,
                       streamingPageId, pageIdCounter, streams, abortRef, posted, turns, harnessVars>>

\* the message handler of App.jsx for a canvas:selection message whose
\* source is the iframe of open page p
SelectionMessage(p, payload) ==
    /\ p \in PageIds(pages)
    /\ activePageId' = p
    /\ selectedElements' = payload
    /\ last' = NoTurn
    /\ UNCHANGED <<pages, chatHistory, streamingPageId, pageIdCounter, streams,
                   abortRef, posted, turns, harnessVars>>

\* store.setActivePage, called for a page of the sidebar or the canvas
SetActivePage(id) ==
    /\ id \in PageIds(pages)
    /\ activePageId' = id
    /\ selectedElements' = <<>>
    /\ last' = NoTurn
    /\ UNCHANGED <<pages, chatHistory, streamingPageId, pageIdCounter, streams,
                   abortRef, posted, turns, harnessVars>>

\* store.addPage
AddPage ==
    /\ pageIdCounter <= MaxPages
    /\ pages' = Append(pages, createPage(pageIdCounter))
    /\ pageIdCounter' = pageIdCounter + 1
    /\ activePageId' = pageIdCounter
    /\ chatHistory' = [k \in DOMAIN chatHistory \cup {pageIdCounter} |->
                         IF k = pageIdCounter THEN <<>> ELSE chatHistory[k]]
    /\ selectedElements' = <<>>
    /\ last' = NoTurn
    /\ UNCHANGED <<streamingPageId, streams, abortRef, posted, turns,
                   harnessVars>>

\* a deletePage that leaves activePageId alone when the active page goes
deletePageKeepingActive(ps, ch, active, sel, id) ==
    LET remaining == SelectSeq(ps, LAMBDA p : p.id # id)
    IN  IF Len(ps) = 1
        THEN [pages |-> ps, chatHistory |-> ch, activePageId |-> active,
              selectedElements |-> sel]
        ELSE [pages |-> remaining,
              chatHistory |-> [k \in DOMAIN ch \ {id} |-> ch[k]],
              activePageId |-> active,
              selectedElements |-> IF active = id THEN <<>> ELSE sel]

\* store.deletePage(id) on the pages, histories, active page and selection
\* of the store (lines 118-130): the early return leaves them as they are
deletePage(ps, ch, active, sel, id) ==
    LET remaining == SelectSeq(ps, LAMBDA p : p.id # id)
    IN  IF Len(ps) = 1
        THEN [pages |-> ps, chatHistory |-> ch, activePageId |-> active,
              selectedElements |-> sel]
        ELSE [pages |-> remaining,
              chatHistory |-> [k \in DOMAIN ch \ {id} |-> ch[k]],
              activePageId |-> IF active = id THEN remaining[1].id ELSE active,
              selectedElements |-> IF active = id THEN <<>> ELSE sel]

\* store.deletePage, called with any id
DeletePage(id) ==
    LET after == deletePage(pages, chatHistory, activePageId,
                            selectedElements, id)
    IN  /\ pages' = after.pages
        /\ chatHistory' = after.chatHistory
        /\ activePageId' = after.activePageId
        /\ selectedElements' = after.selectedElements
        /\ last' = NoTurn
        /\ UNCHANGED <<streamingPageId, pageIdCounter, streams, abortRef, posted, turns, harnessVars>>

\* the clear button of the selection context bar (lines 184-187)
ClearSelectionClick ==
    /\ selectedElements # <<>>
    /\ posted' = clearSelectionInIframe(pages, posted, activePageId)
    /\ selectedElements' = <<>>
    /\ last' = NoTurn
    /\ UNCHANGED <<pages, activePageId, chatHistory, streamingPageId,
                   pageIdCounter, streams, abortRef, turns, harnessVars>>

\* the iframe of page p takes its canvas:clearSelection message
DeliverClearSelection(p) ==
    /\ p \in posted
    /\ posted' = posted \ {p}
    /\ last' = NoTurn
    /\ UNCHANGED <<pages, activePageId, selectedElements, chatHistory,
                   streamingPageId, pageIdCounter, streams, abortRef, turns, harnessVars>>

Next ==
    \/ \E input \in {"", "make the title blue"} : \E reply \in Replies :
          HandleSend(input, reply)
    \/ \E s \in streams : Token(s)
    \/ \E s \in streams : StreamDone(s)
    \/ \E s \in streams : StreamFail(s)
    \/ HandleStop
    \/ \E s \in streams : StreamAborted(s)
    \/ ApplyStyle("color", "red")
    \/ \E p \in PageIds(pages) : \E payload \in Payloads :
          SelectionMessage(p, payload)
    \/ \E id \in PageIds(pages) : SetActivePage(id)
    \/ AddPage

\* the chat turn on the store, with the other writers of the documents and
\* of the selection
Spec == Init /\ [][Next]_vars

\* responses parseLlmResponse does not recognize: no text at all, an answer
\* in prose, and a json block cut off before its closing fence
UnrecognizedReplies ==
    {<<>>,
     <<(<<Prose>>)>>,
     <<(<<Prose, FenceJson>>), (<<JsonLex(PatchText)>>)>>}

NextUnrecognized ==
    \/ \E input \in {"", "make the title blue"} :
          \E reply \in UnrecognizedReplies : HandleSend(input, reply)
    \/ \E s \in streams : Token(s)
    \/ \E s \in streams : StreamDone(s)
    \/ \E s \in streams : StreamFail(s)
    \/ HandleStop
    \/ \E s \in streams : StreamAborted(s)
    \/ ApplyStyle("color", "red")
    \/ \E p \in PageIds(pages) : \E payload \in Payloads :
          SelectionMessage(p, payload)
    \/ \E id \in PageIds(pages) : SetActivePage(id)
    \/ AddPage

\* the chat turn when the LLM answers without a block or a document
SpecUnrecognized == Init /\ [][NextUnrecognized]_vars

(***************************************************************************)
(* The response pipeline on its own: parseLlmResponse on a response text,  *)
(* then applyDiff of the patch list on DEFAULT_HTML.                       *)
(***************************************************************************)
\* [{"op":"bogus"}]
PatchBogus == JArray(<<OpUnknown("bogus")>>)
\* a list whose second element has no recognized op
PatchThenBogus == JArray(<<OpAddClass(TagSel("h1"), "big"), OpUnknown("bogus")>>)
\* [{"op":"remove","selector":"html"}]
PatchRemoveRoot == JArray(<<OpRemove(TagSel("html"))>>)
\* two operations that both apply
PatchTwo ==
    JArray(<<OpAddClass(ClassSel("missing"), "big"),
             OpReplaceStyle(TagSel("p"), "color", "red")>>)

\* what stands between the fences of the modelled json blocks
JsonContents ==
    {JsonLex(PatchText), JsonLex(PatchTwo), JsonLex(PatchBogus),
     JsonLex(PatchThenBogus), JsonLex(PatchWithNull), JsonLex(PatchRemoveRoot),
     JsonLex(JArray(<<>>)), JsonLex(OpRemove(TagSel("h1"))),
     JsonLex(JArray(<<JNull>>)), JsonLex(JArray(<<OpWithoutOp>>)),
     JsonLex(JArray(<<JNumber>>)), Garbage}

\* the pieces a modelled response text is made of
Segments ==
    {<<FenceJson, WS, c, WS, Fence>> : c \in JsonContents}
    \cup {<<FenceJson, JsonLex(PatchText)>>,
          <<FenceHtml, WS, ReplyDoc, WS, Fence>>,
          <<FenceHtml, Prose, Fence>>,
          <<ReplyDoc>>,
          <<DocLex("<!doctype", "authored", ReplyTree)>>,
          <<DocLex("<html", "authored", ReplyTree)>>,
          <<DocLex("<div", "authored", EmptyDocument)>>,
          <<WS>>, <<Prose>>}

RECURSIVE Texts(_)
Texts(n) ==
    IF n = 0 THEN {<<>>}
    ELSE Texts(n - 1) \cup {t \o g : t \in Texts(n - 1), g \in Segments}

Unset == [type |-> "unset", ops |-> <<>>, html |-> <<>>]
NotApplied ==
    [done |-> FALSE, ok |-> TRUE, html |-> <<>>, attempted |-> 0, warns |-> 0]

InitPipeline ==
    /\ pages = <<createPage(1)>>
    /\ activePageId = 1
    /\ selectedElements = <<>>
    /\ chatHistory = [k \in {1} |-> <<>>]
    /\ streamingPageId = NoPage
    /\ pageIdCounter = 2
    /\ streams = {}
    /\ abortRef = 0
    /\ last = NoTurn
    /\ posted = {}
    /\ turns = 0
    /\ text \in Texts(MaxSegments)
    /\ parsed = Unset
    /\ applied = NotApplied
    /\ EngineAtRest
    /\ BridgeAtRest
    /\ HostAtRest
    /\ SynthAtRest

\* parseLlmResponse(text)
ParseResponse ==
    /\ parsed = Unset
    /\ parsed' = parseLlmResponse(text)
    /\ UNCHANGED <<storeVars, text, applied, engineVars, bridgeVars, hostMsg,
                   synth>>

\* applyDiff(DEFAULT_HTML, parsed.payload), as applyLlmResponse calls it
ApplyPatch ==
    /\ parsed.type = "diff"
    /\ ~applied.done
    /\ applied' = [done |-> TRUE] @@ applyDiff(DEFAULT_HTML, parsed.ops)
    /\ UNCHANGED <<storeVars, text, parsed, engineVars, bridgeVars, hostMsg,
                   synth>>

NextPipeline == ParseResponse \/ ApplyPatch

SpecPipeline == InitPipeline /\ [][NextPipeline]_vars

(***************************************************************************)
(* Claims about the response parser and the patch engine (SpecPipeline)    *)
(***************************************************************************)
\* the case labels of the switch of _applyOp
RecognizedOps ==
    {"replace", "replaceStyle", "replaceAttr", "replaceText", "addClass",
     "removeClass", "insertBefore", "insertAfter", "remove", "replaceCSS",
     "injectStyle"}

\* the first json block of the text and what stands between its fences
JsonBlock == FenceMatch(text, FenceJson)
JsonBlockContent == Trim(JsonBlock.capture)
HtmlBlock == FenceMatch(text, FenceHtml)

\* the content decodes to a non-empty list whose first element has a string op
JsonBlockIsPatch ==
    /\ JsonBlock.found
    /\ Len(JsonBlockContent) = 1
    /\ JsonBlockContent[1].lex = "json"
    /\ JsonBlockContent[1].val.j = "array"
    /\ Len(JsonBlockContent[1].val.items) > 0
    /\ JsonBlockContent[1].val.items[1].j = "object"
    /\ JsonBlockContent[1].val.items[1].opType = "string"

\* C3: for every operation list parseLlmResponse returns as a patch list,
\* applyDiff returns a document without raising and attempts every operation
\* of the list, those after a failing one included.
C3_ApplyDiffNeverRaises ==
    applied.done => applied.ok /\ applied.attempted = Len(parsed.ops)

\* C8: parseLlmResponse returns a patch list only if the json block decodes to
\* a non-empty list whose every element carries one of the eleven recognized
\* operation kinds.
C8_PatchListOnlyOfRecognizedOps ==
    parsed.type = "diff" =>
        /\ Len(parsed.ops) > 0
        /\ \A i \in 1..Len(parsed.ops) :
              /\ parsed.ops[i].j = "object"
              /\ parsed.ops[i].opType = "string"
              /\ parsed.ops[i].op \in RecognizedOps

\* C9: the rules apply in fixed precedence, first match wins: a valid json
\* patch block gives the patch list whatever else the text holds; otherwise an
\* html block gives a full document with its trimmed contents; otherwise a
\* text that starts with a doctype declaration or an html root tag gives a
\* full document; otherwise the result is null.  A doctype declaration is
\* one in any letter case, as HTML reads it.
C9_RulePrecedence ==
    LET StartsWithDocument ==
            /\ Trim(text) # <<>>
            /\ Trim(text)[1].lex = "doc"
            /\ Trim(text)[1].prefix \in {"<!DOCTYPE", "<!doctype", "<html"}
    IN
    parsed # Unset =>
        IF JsonBlockIsPatch
        THEN parsed = ParseDiff(JsonBlockContent[1].val.items)
        ELSE IF HtmlBlock.found
        THEN parsed = ParseFull(Trim(HtmlBlock.capture))
        ELSE IF StartsWithDocument
        THEN parsed.type = "full"
        ELSE parsed = ParseNull

\* C10: parseLlmResponse never raises, and a json block whose content does not
\* decode, is not a list, is empty, or has a first element that is null or
\* lacks a string op leaves the result to the html rule and then to the
\* bare-document rule.
C10_InvalidJsonFallsThrough ==
    parsed # Unset =>
        /\ parsed.type # "throw"
        /\ (JsonBlock.found /\ ~JsonBlockIsPatch) =>
             parsed = IF HtmlBlock.found
                      THEN ParseFull(Trim(HtmlBlock.capture))
                      ELSE IF StartsWith(Trim(text), "<!DOCTYPE")
                              \/ StartsWith(Trim(text), "<html")
                      THEN ParseFull(Trim(text))
                      ELSE ParseNull

\* a text whose json block holds [null], parsed to the document of its html
\* block
C10_Witness ==
    /\ JsonBlock.found
    /\ ~JsonBlockIsPatch
    /\ JsonBlockContent = <<JsonLex(JArray(<<JNull>>))>>
    /\ parsed.type = "full"
    /\ parsed.html = <<ReplyDoc>>

(***************************************************************************)
(* Claims about the chat turn (Spec)                                       *)
(***************************************************************************)
\* the patch list applyLlmResponse reads from the text of the turn that has
\* just ended (differ.js line 211)
LastOps == parseLlmResponse(last.accumulated).ops

\* C1: when a stream is cancelled and the text accumulated so far holds a
\* complete valid json patch block, the handling of the cancellation applies
\* the block: the document of the page becomes the patched document.
C1_CancelAppliesCompleteBlock ==
    (/\ last.outcome = "cancelled"
     /\ last.exists
     /\ parseLlmResponse(last.accumulated).type = "diff"
     /\ applyDiff(last.before, LastOps).ok)
    => last.after = applyDiff(last.before, LastOps).html

\* C2: on normal completion the patch list is applied to the document of the
\* page as the store holds it at completion, not to the document captured when
\* the turn started: the resulting document is the patch applied to the
\* document with every mutation that landed in between.
C2_PatchAppliedToCurrentDocument ==
    (last.outcome = "completed" /\ last.exists /\ last.type = "diff")
    => last.after = applyDiff(last.before, LastOps).html

\* a completed turn whose page was restyled by the properties panel between
\* send and completion: the result carries both the style and the new text
C2_Witness ==
    LET ElementsOf(html, tag) ==
            {parseFromString(html)[i] : i \in
                {k \in 1..Len(parseFromString(html)) :
                    parseFromString(html)[k].tag = tag}}
    IN
    /\ last.outcome = "completed"
    /\ last.type = "diff"
    /\ last.before # last.currentHtml
    /\ \E e \in ElementsOf(last.after, "h1") :
          e.text = "Hi" /\ <<"color", "red">> \in e.style
    /\ \E e \in ElementsOf(last.currentHtml, "h1") :
          e.text # "Hi" /\ e.style = {}

\* C4: at most one stream is in flight in every reachable state; handleSend
\* invoked while streamingPageId is not null starts no stream, pushes no
\* message and changes no state; a stream is started only from the idle state.
C4_AtMostOneStream ==
    /\ [](Cardinality(streams) <= 1)
    /\ [](streams = {} <=> streamingPageId = NoPage)
    \* while a stream is in flight handleSend takes its early return
    /\ [](streamingPageId # NoPage =>
            \A input \in {"", "make the title blue"} :
                SendRejected(input, FindPage(pages, activePageId),
                             streamingPageId))
    \* no step pushes a message while a stream is in flight
    /\ [][streamingPageId # NoPage =>
            \A p \in DOMAIN chatHistory :
                Len(chatHistory'[p]) = Len(chatHistory[p])]_vars
    \* a step that starts a stream starts it from the idle state
    /\ [][{s.id : s \in streams'} \ {s.id : s \in streams} # {}
            => streamingPageId = NoPage /\ streams = {}]_vars

\* a stream is in flight for one page while another page is the active one,
\* and the chat of the active page holds no message
C4_Witness ==
    /\ Cardinality(streams) = 1
    /\ streamingPageId # NoPage
    /\ activePageId # streamingPageId
    /\ HistoryOf(chatHistory, activePageId) = <<>>
    /\ Len(HistoryOf(chatHistory, streamingPageId)) = 2

\* C5: every stream that reaches a terminal outcome leaves streamingPageId
\* null, so that a new turn can start, also when the handling of the outcome
\* itself raises.
C5_TerminalOutcomeResetsStreamingPage ==
    last.outcome \in {"completed", "cancelled", "failed"}
    => /\ streamingPageId = NoPage
       /\ ~SendRejected("make the title blue",
                        FindPage(pages, activePageId), streamingPageId)

\* a cancelled turn whose catch clause raised
C5_Witness ==
    /\ last.outcome = "cancelled"
    /\ last.err = "ReferenceError"
    /\ streamingPageId = NoPage

\* C6: when a stream fails after tokens were received, the text accumulated so
\* far is still in the transcript of the page once the failure is handled.
C6_FailureKeepsAccumulatedText ==
    LET Contains(content, part) ==
            \E k \in 0..(Len(content) - Len(part)) :
                \A i \in 1..Len(part) : content[k + i] = part[i]
    IN
    (last.outcome = "failed" /\ last.accumulated # <<>>)
    => \E i \in 1..Len(HistoryOf(chatHistory, last.pid)) :
          Contains(HistoryOf(chatHistory, last.pid)[i].content,
                   last.accumulated)

\* C7: when a stream fails with an error that is not a cancellation, no
\* document of any page changes and the selection is not cleared, whatever
\* text had accumulated.
C7_FailureLeavesDocumentsAndSelection ==
    [][last'.outcome = "failed" =>
          /\ pages' = pages
          /\ selectedElements' = selectedElements
          /\ posted' = posted]_vars

\* a failed turn whose accumulated text is a complete patch block that
\* applies, with elements selected
C7_Witness ==
    /\ last.outcome = "failed"
    /\ parseLlmResponse(last.accumulated).type = "diff"
    /\ applyDiff(last.before, LastOps).ok
    /\ applyDiff(last.before, LastOps).html # last.before
    /\ last.after = last.before
    /\ selectedElements # <<>>

(***************************************************************************)
(* Claims about unrecognized responses (SpecUnrecognized)                  *)
(***************************************************************************)
\* C11: for every document D and every text that parses to null,
\* applyLlmResponse returns D itself with type noop, without the
\* serialization applyDiff would make of it, and the step that ends the turn
\* neither replaces a document nor clears the selection.
C11_UnrecognizedIsNoop ==
    /\ [](\A i \in 1..Len(pages) :
            \A s \in streams :
               parseLlmResponse(s.accumulated).type = Null =>
                  applyLlmResponse(pages[i].html, s.accumulated) =
                     [newHtml |-> pages[i].html, type |-> "noop"])
    /\ [][(last'.outcome = "completed"
             /\ parseLlmResponse(last'.accumulated).type = Null) =>
          /\ last'.type = "noop"
          /\ pages' = pages
          /\ selectedElements' = selectedElements
          /\ posted' = posted]_vars

\* a completed turn with an unrecognized text, on a page the properties panel
\* has restyled, with the elements still selected
C11_Witness ==
    /\ last.outcome = "completed"
    /\ last.type = "noop"
    /\ last.accumulated # <<>>
    /\ last.after = last.before
    /\ last.before # DEFAULT_HTML
    /\ selectedElements # <<>>
    /\ posted = {}

(***************************************************************************)
(* The patch engine on its own: applyDiff(docHtml, batch) on a document    *)
(* and a batch of operations.                                              *)
(***************************************************************************)
\* operations of one batch
MaxOps == 2

OpRemoveClass(selector, class) ==
    JObject("string", "removeClass", selector, <<>>, Undefined, Undefined,
            Undefined, Undefined, class, Undefined)
OpReplaceAttr(selector, attr, value) ==
    JObject("string", "replaceAttr", selector, <<>>, Undefined, value,
            attr, Undefined, Undefined, Undefined)
OpReplace(selector, frag) ==
    JObject("string", "replace", selector, frag, Undefined, Undefined,
            Undefined, Undefined, Undefined, Undefined)
OpInsertBefore(selector, frag) ==
    JObject("string", "insertBefore", selector, frag, Undefined, Undefined,
            Undefined, Undefined, Undefined, Undefined)
OpInsertAfter(selector, frag) ==
    JObject("string", "insertAfter", selector, frag, Undefined, Undefined,
            Undefined, Undefined, Undefined, Undefined)
OpReplaceCSS(selector, css) ==
    JObject("string", "replaceCSS", selector, <<>>, Undefined, Undefined,
            Undefined, Undefined, Undefined, css)
OpInjectStyle(css) ==
    JObject("string", "injectStyle", UndefinedSel, <<>>, Undefined, Undefined,
            Undefined, Undefined, Undefined, css)

\* <span class="new">New</span>
NewFragment == <<Element("span", 0, "", {"new"}, "New")>>

\* a document without a style block:
\* <section><h1>Title</h1>after</section>
\* <ul>Items<li class="item">One</li>more<li class="item">Two</li></ul>
\* <p>Para</p>
ListTree ==
    <<Element("html", 0, "", {}, NoText),
      Element("head", 1, "", {}, NoText),
      Element("body", 1, "", {}, NoText),
      [Element("section", 2, "", {}, NoText) EXCEPT !.tail = "after"],
      Element("h1", 3, "", {}, "Title"),
      [Element("ul", 2, "", {}, "Items") EXCEPT !.tail = "more"],
      Element("li", 3, "", {"item"}, "One"),
      Element("li", 3, "", {"item"}, "Two"),
      Element("p", 2, "", {}, "Para")>>
ListDoc == DocLex("<!DOCTYPE", "authored", ListTree)

\* the documents applyDiff is called on; the empty string parses to a
\* document of html, head and body
Documents == {DEFAULT_HTML, <<ReplyDoc>>, <<ListDoc>>, <<>>}

\* the operations the batches are made of
EngineOps ==
    {OpReplaceText(TagSel("h1"), "Hi"),
     OpReplaceText(TagSel("ul"), "Hi"),
     OpReplaceText(TagSel("section"), "Hi"),
     OpReplaceStyle(TagSel("p"), "color", "red"),
     OpAddClass(TagSel("p"), "big"),
     OpAddClass(ClassSel("new"), "seen"),
     OpRemoveClass(ClassSel("item"), "item"),
     OpReplaceAttr(TagSel("li"), "title", "tip"),
     OpInsertBefore(TagSel("h1"), NewFragment),
     OpInsertAfter(TagSel("p"), NewFragment),
     OpRemove(TagSel("p")),
     OpReplace(TagSel("h1"), NewFragment),
     OpReplaceCSS(TagSel("p"), "color: red"),
     OpReplaceCSS(TagSel("h3"), "color: red"),
     OpInjectStyle("a { color: blue }"),
     OpReplace(ClassSel("missing"), NewFragment),
     OpRemove(InvalidSel)}

RECURSIVE Batches(_)
Batches(n) ==
    IF n = 0 THEN {<<>>}
    ELSE Batches(n - 1) \cup {Append(b, op) : b \in Batches(n - 1), op \in EngineOps}

\* what a finished call of applyDiff is recorded as
Ran(d) ==
    [done |-> TRUE, ok |-> d.ok, html |-> d.html, attempted |-> d.attempted,
     warns |-> d.warns]

InitEngine ==
    /\ pages = <<createPage(1)>>
    /\ activePageId = 1
    /\ selectedElements = <<>>
    /\ chatHistory = [k \in {1} |-> <<>>]
    /\ streamingPageId = NoPage
    /\ pageIdCounter = 2
    /\ streams = {}
    /\ abortRef = 0
    /\ last = NoTurn
    /\ posted = {}
    /\ turns = 0
    /\ text = <<>>
    /\ parsed = Unset
    /\ applied = NotApplied
    /\ docHtml \in Documents
    /\ batch \in Batches(MaxOps)
    /\ out = NotRun
    /\ BridgeAtRest
    /\ HostAtRest
    /\ SynthAtRest

\* applyDiff(docHtml, batch)
ApplyBatch ==
    /\ ~out.done
    /\ out' = Ran(applyDiff(docHtml, batch))
    /\ UNCHANGED <<storeVars, text, parsed, applied, docHtml, batch, bridgeVars,
                   hostMsg, synth>>

NextEngine == ApplyBatch

SpecEngine == InitEngine /\ [][NextEngine]_vars

(***************************************************************************)
(* Claims about the patch engine (SpecEngine)                              *)
(***************************************************************************)
\* the kinds of operation that resolve a selector to elements
SelectorKinds ==
    {"replace", "replaceStyle", "replaceAttr", "replaceText", "addClass",
     "removeClass", "insertBefore", "insertAfter", "remove"}

\* the state the loop of applyDiff starts in (lines 45-46)
LoopStart(html) ==
    [tree |-> parseFromString(html), attempted |-> 0, warns |-> 0, ok |-> TRUE]

\* the state of the loop of applyDiff(html, ops) after its first k operations
LoopAfter(html, ops, k) == ApplyOps(LoopStart(html), SubSeq(ops, 1, k), 1)

\* does the selector of op resolve to no element of t
ResolvesToNothing(t, op) ==
    /\ op.op \in SelectorKinds
    /\ op.selector.k = "invalid" \/ MatchSet(t, op.selector) = {}

\* C12: an operation of a batch whose selector resolves to no element, or
\* is not a valid selector, leaves the tree as it was, and the other
\* operations of the batch are all executed: every operation is attempted
\* and the result is the one of the batch without that operation
C12_UnresolvedOpIsSkipped ==
    LET Without(ops, k) == SubSeq(ops, 1, k - 1) \o SubSeq(ops, k + 1, Len(ops))
    IN
    out.done =>
      \A k \in 1..Len(batch) :
        ResolvesToNothing(LoopAfter(docHtml, batch, k - 1).tree, batch[k]) =>
          /\ LoopAfter(docHtml, batch, k).tree
               = LoopAfter(docHtml, batch, k - 1).tree
          /\ out.attempted = Len(batch)
          /\ out.ok
          /\ out.html = applyDiff(docHtml, Without(batch, k)).html

C12_Witness ==
    /\ out.done
    /\ Len(batch) = 2
    /\ ResolvesToNothing(parseFromString(docHtml), batch[1])
    /\ out.attempted = 2
    /\ parseFromString(out.html) # parseFromString(docHtml)

\* C13: for a batch of one selector-addressed operation whose selector
\* matches no element, applyDiff returns the document unchanged and records
\* exactly one skipped-operation warning
C13_OneWarningPerSkippedOp ==
    (/\ out.done
     /\ Len(batch) = 1
     /\ ResolvesToNothing(parseFromString(docHtml), batch[1]))
      => /\ out.ok
         /\ parseFromString(out.html) = parseFromString(docHtml)
         /\ out.warns = 1

\* C14: applyDiff applies the operations in array order to one tree: for
\* every split of the batch, applying the first part and then the rest to
\* the result gives the document, the attempts and the warnings of the
\* whole batch, so that a later operation resolves its selector against the
\* tree the earlier ones left
C14_OpsComposeInArrayOrder ==
    LET Composed(first, rest) ==
            /\ rest.ok = out.ok
            /\ out.ok => rest.html = out.html
            /\ first.attempted + rest.attempted = out.attempted
            /\ first.warns + rest.warns = out.warns
        Then(first, ops) ==
            first.ok => Composed(first, applyDiff(first.html, ops))
    IN  out.done =>
          \A k \in 0..Len(batch) :
            Then(applyDiff(docHtml, SubSeq(batch, 1, k)),
                 SubSeq(batch, k + 1, Len(batch)))

\* the second operation acts on the element the first one inserted
C14_Witness ==
    /\ out.done
    /\ out.ok
    /\ batch = <<OpInsertBefore(TagSel("h1"), NewFragment),
                 OpAddClass(ClassSel("new"), "seen")>>
    /\ \E i \in 1..Len(parseFromString(out.html)) :
          parseFromString(out.html)[i].classList = {"new", "seen"}
    /\ \A i \in 1..Len(parseFromString(docHtml)) :
          "new" \notin parseFromString(docHtml)[i].classList

\* the kinds of operation that set a class, an attribute or a style
ClassAttrStyleKinds == {"addClass", "removeClass", "replaceAttr", "replaceStyle"}

\* the elements of t the operation acts on: every match for replaceStyle,
\* the first match for the other kinds
Targets(t, op) ==
    IF op.op = "replaceStyle" THEN _selAll(t, op.selector)
    ELSE IF _sel(t, op.selector) = 0 THEN {}
    ELSE {_sel(t, op.selector)}

\* C15 as stated: for every batch of addClass, removeClass, replaceAttr and
\* replaceStyle operations, applying the batch to the result of applying it
\* gives the result again
C15_SecondApplicationIsNoop ==
    (/\ out.done
     /\ out.ok
     /\ \A k \in 1..Len(batch) : batch[k].op \in ClassAttrStyleKinds)
      => applyDiff(out.html, batch).html = out.html

\* C15, amended: the second application gives the result again when each
\* operation resolves in it to the elements it resolved to in the first
C15_Amended ==
    (/\ out.done
     /\ out.ok
     /\ \A k \in 1..Len(batch) :
          /\ batch[k].op \in ClassAttrStyleKinds
          /\ Targets(LoopAfter(out.html, batch, k - 1).tree, batch[k])
               = Targets(LoopAfter(docHtml, batch, k - 1).tree, batch[k]))
      => applyDiff(out.html, batch).html = out.html

\* a batch of two such operations that changed the document
C15_Witness ==
    /\ out.done
    /\ out.ok
    /\ Len(batch) = 2
    /\ \A k \in 1..Len(batch) :
          /\ batch[k].op \in ClassAttrStyleKinds
          /\ Targets(LoopAfter(docHtml, batch, k - 1).tree, batch[k]) # {}
          /\ Targets(LoopAfter(out.html, batch, k - 1).tree, batch[k])
               = Targets(LoopAfter(docHtml, batch, k - 1).tree, batch[k])
    /\ parseFromString(out.html) # parseFromString(docHtml)
    /\ applyDiff(out.html, batch).html = out.html

\* C16: replaceStyle sets the style property on every element its selector
\* matches and leaves the others as they were; an operation of another
\* selector-addressed kind leaves every match but the first (outside the
\* subtree of the first) as it was, at its place before or after the change
C16_AllMatchesForStyleFirstForOthers ==
    LET StyleOnAll(before, after, op) ==
            /\ Len(after) = Len(before)
            /\ \A i \in 1..Len(before) :
                 IF i \in MatchSet(before, op.selector)
                 THEN after[i] = SetStyle(before[i], op.property, op.value)
                 ELSE after[i] = before[i]
        OthersUntouched(before, after, op, first) ==
            \A m \in MatchSet(before, op.selector) :
              /\ m < first => after[m] = before[m]
              /\ m > SubtreeEnd(before, first)
                   => after[m + Len(after) - Len(before)] = before[m]
        Step(before, after, op) ==
            /\ op.op = "replaceStyle" => StyleOnAll(before, after, op)
            /\ (/\ op.op \in SelectorKinds \ {"replaceStyle"}
                /\ MatchSet(before, op.selector) # {})
                 => OthersUntouched(before, after, op,
                                    Min(MatchSet(before, op.selector)))
    IN  out.done =>
          \A k \in 1..Len(batch) :
            Step(LoopAfter(docHtml, batch, k - 1).tree,
                 LoopAfter(docHtml, batch, k).tree, batch[k])

\* both paragraphs of the default document are styled, the first only gets
\* the class
C16_Witness ==
    /\ out.done
    /\ out.ok
    /\ docHtml = DEFAULT_HTML
    /\ batch = <<OpReplaceStyle(TagSel("p"), "color", "red"),
                 OpAddClass(TagSel("p"), "big")>>
    /\ \E a, b \in 1..Len(parseFromString(out.html)) :
          /\ a < b
          /\ parseFromString(out.html)[a].tag = "p"
          /\ parseFromString(out.html)[b].tag = "p"
          /\ parseFromString(out.html)[a].style = {<<"color", "red">>}
          /\ parseFromString(out.html)[b].style = {<<"color", "red">>}
          /\ parseFromString(out.html)[a].classList = {"big"}
          /\ parseFromString(out.html)[b].classList = {}

\* C17: replaceText on a matched element without child elements makes the
\* given text its whole text content; on a matched element with child
\* elements it replaces the first text node among its children only, and
\* its child elements and later text nodes stay as they were
C17_ReplaceTextKeepsChildElements ==
    LET Childless(before, after, op, el) ==
            /\ Len(after) = Len(before)
            /\ after[el] = [before[el] EXCEPT !.text = op.text,
                                              !.tail = NoText]
        WithChildren(before, after, op, el) ==
            /\ Len(after) = Len(before)
            /\ \A i \in (el + 1)..SubtreeEnd(before, el) : after[i] = before[i]
            /\ after[el] =
                 IF before[el].text # NoText
                 THEN [before[el] EXCEPT !.text = op.text]
                 ELSE IF before[el].tail # NoText
                 THEN [before[el] EXCEPT !.tail = op.text]
                 ELSE before[el]
        Step(before, after, op, el) ==
            IF SubtreeEnd(before, el) = el
            THEN Childless(before, after, op, el)
            ELSE WithChildren(before, after, op, el)
    IN  out.done =>
          \A k \in 1..Len(batch) :
            (/\ batch[k].op = "replaceText"
             /\ MatchSet(LoopAfter(docHtml, batch, k - 1).tree,
                         batch[k].selector) # {})
              => Step(LoopAfter(docHtml, batch, k - 1).tree,
                      LoopAfter(docHtml, batch, k).tree, batch[k],
                      Min(MatchSet(LoopAfter(docHtml, batch, k - 1).tree,
                                   batch[k].selector)))

\* the text of the childless h1 and the first text node of the list are
\* replaced; the list keeps its items and its later text
C17_Witness ==
    /\ out.done
    /\ out.ok
    /\ docHtml = <<ListDoc>>
    /\ batch = <<OpReplaceText(TagSel("h1"), "Hi"),
                 OpReplaceText(TagSel("ul"), "Hi")>>
    /\ Len(parseFromString(out.html)) = Len(ListTree)
    /\ \E h, u \in 1..Len(ListTree) :
          /\ parseFromString(out.html)[h].tag = "h1"
          /\ parseFromString(out.html)[h].text = "Hi"
          /\ parseFromString(out.html)[u].tag = "ul"
          /\ parseFromString(out.html)[u].text = "Hi"
          /\ parseFromString(out.html)[u].tail = "more"
          /\ parseFromString(out.html)[u + 1].tag = "li"
          /\ parseFromString(out.html)[u + 2].text = "Two"

\* C18: replaceCSS acts on the last style block of the document, created
\* when there is none: a rule whose selector text is exactly the given
\* selector gets the given body and every other rule stays as it was, a
\* rule whose selector only ends with the given selector included; without
\* such a rule a new rule is appended
C18_ReplaceCSSExactSelectorOnly ==
    LET Exact(css, op) ==
            {i \in 1..Len(css) :
                css[i].kind = "rule" /\ css[i].selector = op.selector}
        Rewritten(css, new, op) ==
            IF Exact(css, op) # {}
            THEN /\ Len(new) = Len(css)
                 /\ \A i \in 1..Len(css) :
                      new[i] = IF i \in Exact(css, op)
                               THEN CssRule(op.selector, op.css)
                               ELSE css[i]
            ELSE new = Append(css, CssRule(op.selector, op.css))
        Step(g, after, op) ==
            /\ g.ok
            /\ Len(after) = Len(g.tree)
            /\ after[g.at].tag = "style"
            /\ \A i \in (g.at + 1)..Len(after) : after[i].tag # "style"
            /\ Rewritten(g.tree[g.at].css, after[g.at].css, op)
    IN  out.done =>
          \A k \in 1..Len(batch) :
            batch[k].op = "replaceCSS"
              => Step(_getOrCreateStyle(LoopAfter(docHtml, batch, k - 1).tree),
                      LoopAfter(docHtml, batch, k).tree, batch[k])

\* C19: a batch of one selector-addressed operation changes the matched
\* element(s) only: an operation on text, attribute, class or style leaves
\* every other element as it was; remove, replace, insertBefore and
\* insertAfter leave every element outside the subtree of the matched
\* element as it was and in its order, next to what was inserted
C19_OnlyMatchedElementsChange ==
    LET InPlace(before, after, acted) ==
            /\ Len(after) = Len(before)
            /\ \A i \in 1..Len(before) : i \notin acted => after[i] = before[i]
        \* before[from..to] gave way to added new elements
        Spliced(before, after, from, to, added) ==
            /\ Len(after) = Len(before) - (to - from + 1) + added
            /\ \A i \in 1..(from - 1) : after[i] = before[i]
            /\ \A i \in (to + 1)..Len(before) :
                 after[i - (to - from + 1) + added] = before[i]
        Moved(before, after, op, el) ==
            CASE op.op = "remove" ->
                   Spliced(before, after, el, SubtreeEnd(before, el), 0)
              [] op.op = "replace" ->
                   Spliced(before, after, el, SubtreeEnd(before, el),
                           Len(op.html))
              [] op.op = "insertBefore" ->
                   Spliced(before, after, el, el - 1, Len(op.html))
              [] OTHER ->
                   Spliced(before, after, SubtreeEnd(before, el) + 1,
                           SubtreeEnd(before, el), Len(op.html))
        Frame(before, after, op) ==
            IF Targets(before, op) = {} THEN after = before
            ELSE IF op.op \in {"remove", "replace", "insertBefore", "insertAfter"}
            THEN Moved(before, after, op, Min(Targets(before, op)))
            ELSE InPlace(before, after, Targets(before, op))
    IN  (/\ out.done
         /\ Len(batch) = 1
         /\ batch[1].op \in SelectorKinds)
          => /\ out.ok
             /\ Frame(parseFromString(docHtml), parseFromString(out.html),
                      batch[1])

\* replaceText on h1 with the text Hi changes the text of the h1 only
C19_Witness ==
    /\ out.done
    /\ out.ok
    /\ docHtml = DEFAULT_HTML
    /\ batch = <<OpReplaceText(TagSel("h1"), "Hi")>>
    /\ Len(parseFromString(out.html)) = Len(DefaultTree)
    /\ \A i \in 1..Len(DefaultTree) :
          parseFromString(out.html)[i] =
            IF DefaultTree[i].tag = "h1"
            THEN [DefaultTree[i] EXCEPT !.text = "Hi"]
            ELSE DefaultTree[i]

(***************************************************************************)
(* selectionBridge.js: the click listener and the message listener of the  *)
(* script injected into one iframe.                                        *)
(***************************************************************************)
\* elements of the page other than body and documentElement
MaxElements == 3

\* body and documentElement as the target of a click
BlankArea == 0

\* selectedEls.indexOf(el), 0 for -1
IndexOf(els, el) ==
    IF \E i \in 1..Len(els) : els[i] = el
    THEN Min({i \in 1..Len(els) : els[i] = el})
    ELSE 0

\* a removal that drops the rest of the list as well
SpliceToEnd(els, idx) == SubSeq(els, 1, idx - 1)

\* selectedEls.splice(idx, 1)
Splice(els, idx) == SubSeq(els, 1, idx - 1) \o SubSeq(els, idx + 1, Len(els))

\* an append that does not look for the element in the list
ToggleAlwaysAppending(els, el) == Append(els, el)

\* lines 321-332: the selection after a click on el that is not on the
\* blank area, els being the selection left by lines 323-326
Toggle(els, el) ==
    IF IndexOf(els, el) > 0 THEN Splice(els, IndexOf(els, el))
    ELSE Append(els, el)

InitBridge ==
    /\ pages = <<createPage(1)>>
    /\ activePageId = 1
    /\ selectedElements = <<>>
    /\ chatHistory = [k \in {1} |-> <<>>]
    /\ streamingPageId = NoPage
    /\ pageIdCounter = 2
    /\ streams = {}
    /\ abortRef = 0
    /\ last = NoTurn
    /\ posted = {}
    /\ turns = 0
    /\ text = <<>>
    /\ parsed = Unset
    /\ applied = NotApplied
    /\ EngineAtRest
    /\ BridgeAtRest
    /\ HostAtRest
    /\ SynthAtRest

\* the elements of a list
Range(els) == {els[i] : i \in 1..Len(els)}

\* a payload listing the elements from the last one to the first
PayloadReversed(els) ==
    [i \in 1..Len(els) |-> [el |-> els[Len(els) + 1 - i]]]

\* broadcast (lines 281-292): the payload has one entry per element of
\* selectedEls, in the order of the list
Payload(els) == [i \in 1..Len(els) |-> [el |-> els[i]]]

\* the click listener with a target other than body and documentElement
Click(el, isMulti) ==
    /\ click' = [handled |-> TRUE, el |-> el, multi |-> isMulti,
                 before |-> selectedEls]
    /\ selectedEls' = Toggle(IF isMulti THEN selectedEls ELSE <<>>, el)
    /\ selMarks' =
         IF el \in (IF isMulti THEN Range(selectedEls) ELSE {})
         THEN (IF isMulti THEN selMarks ELSE selMarks \ Range(selectedEls))
                \ {el}
         ELSE (IF isMulti THEN selMarks ELSE selMarks \ Range(selectedEls))
                \cup {el}
    /\ broadcast' = <<Payload(selectedEls')>>
    /\ received' = NoMessage
    /\ UNCHANGED <<storeVars, text, parsed, applied, engineVars, hostMsg, synth,
                   hoveredEl,
                   hoverMarks>>

\* a click on body or documentElement that returns at once
ClickBlankIgnored(isMulti) ==
    /\ click' = [handled |-> TRUE, el |-> BlankArea, multi |-> isMulti,
                 before |-> selectedEls]
    /\ broadcast' = <<>>
    /\ received' = NoMessage
    /\ UNCHANGED <<storeVars, text, parsed, applied, engineVars, hostMsg, synth,
                   hoveredEl,
                   hoverMarks, selectedEls, selMarks>>

\* the click listener with body or documentElement as its target (lines
\* 313-320): it returns before it reads the modifier keys
ClickBlank(isMulti) ==
    /\ click' = [handled |-> TRUE, el |-> BlankArea, multi |-> isMulti,
                 before |-> selectedEls]
    /\ selMarks' = selMarks \ Range(selectedEls)
    /\ selectedEls' = <<>>
    /\ broadcast' = <<Payload(<<>>)>>
    /\ received' = NoMessage
    /\ UNCHANGED <<storeVars, text, parsed, applied, engineVars, hostMsg, synth,
                   hoveredEl,
                   hoverMarks>>

\* the message listener (lines 343-350) for one message event
ContextMessage(msg) ==
    /\ received' = [handled |-> TRUE, msg |-> msg, before |-> selectedEls,
                    marks |-> selMarks, hovered |-> hoveredEl]
    /\ IF msg.data /\ msg.type = "canvas:clearSelection"
       THEN /\ selMarks' = selMarks \ Range(selectedEls)
            /\ selectedEls' = <<>>
       ELSE UNCHANGED <<selectedEls, selMarks>>
    /\ click' = NoClick
    /\ broadcast' = <<>>
    /\ UNCHANGED <<storeVars, text, parsed, applied, engineVars, hostMsg, synth,
                   hoveredEl,
                   hoverMarks>>

\* the message listener receiving canvas:clearSelection: nothing is posted
ClearSelectionMessage == ContextMessage(Data("canvas:clearSelection"))

\* the messages of another type, or without data or type, that reach the
\* listener
StrayData == {NoData, Data(Undefined), Data("canvas:selection")}

\* the mouseover listener (lines 295-301)
MouseOver(el) ==
    /\ IF el = BlankArea THEN UNCHANGED <<hoveredEl, hoverMarks>>
       ELSE /\ hoveredEl' = el
            /\ hoverMarks' =
                 (IF hoveredEl # 0 /\ hoveredEl # el
                  THEN hoverMarks \ {hoveredEl} ELSE hoverMarks) \cup {el}
    /\ click' = NoClick
    /\ received' = NoMessage
    /\ broadcast' = <<>>
    /\ UNCHANGED <<storeVars, text, parsed, applied, engineVars, hostMsg, synth,
                   selectedEls,
                   selMarks>>

\* the mouseout listener (lines 303-306)
MouseOut ==
    /\ hoverMarks' = IF hoveredEl # 0 THEN hoverMarks \ {hoveredEl}
                     ELSE hoverMarks
    /\ hoveredEl' = 0
    /\ click' = NoClick
    /\ received' = NoMessage
    /\ broadcast' = <<>>
    /\ UNCHANGED <<storeVars, text, parsed, applied, engineVars, hostMsg, synth,
                   selectedEls,
                   selMarks>>

NextBridge ==
    \/ \E el \in 1..MaxElements, isMulti \in BOOLEAN : Click(el, isMulti)
    \/ \E isMulti \in BOOLEAN : ClickBlank(isMulti)
    \/ ClearSelectionMessage
    \/ \E msg \in StrayData : ContextMessage(msg)
    \/ \E el \in 0..MaxElements : MouseOver(el)
    \/ MouseOut

SpecBridge == InitBridge /\ [][NextBridge]_vars

(***************************************************************************)
(* Claims about the selection bridge (SpecBridge)                          *)
(***************************************************************************)
\* C20: after a plain click on an element that is not the blank area, the
\* selection is empty when that element was the sole selected element, and
\* is that element alone in every other case
C20_PlainClickTogglesSoleSelection ==
    (click.el # BlankArea /\ ~click.multi)
      => selectedEls = IF click.before = <<click.el>> THEN <<>>
                       ELSE <<click.el>>

\* C21: after a click with shift, ctrl or meta on an element that is not
\* the blank area, the selection is the one before the click without that
\* element when it was selected, and with it appended when it was not; the
\* other elements keep their order
C21_ModifiedClickTogglesMembership ==
    (click.el # BlankArea /\ click.multi)
      => selectedEls =
           IF click.el \in Range(click.before)
           THEN SelectSeq(click.before, LAMBDA e : e # click.el)
           ELSE Append(click.before, click.el)

\* the middle one of three selected elements is removed
C21_Witness ==
    /\ click.multi
    /\ Len(click.before) = 3
    /\ click.el = click.before[2]
    /\ selectedEls = <<click.before[1], click.before[3]>>

\* C22: after a click on body or on the root element, whatever the modifier
\* keys, the selection is empty, no element bears the selection marker, and
\* one selection message with an empty payload was posted to the host
C22_BlankClickClearsSelection ==
    (click.handled /\ click.el = BlankArea)
      => /\ selectedEls = <<>>
         /\ selMarks = {}
         /\ broadcast = <<(<<>>)>>

\* a click on the blank area with a modifier key and two elements selected
C22_Witness ==
    /\ click.handled
    /\ click.el = BlankArea
    /\ click.multi
    /\ Len(click.before) = 2
    /\ selectedEls = <<>>
    /\ selMarks = {}
    /\ broadcast = <<(<<>>)>>

\* C23: every click handled by the listener posts exactly one selection
\* message; its payload has one entry for each selected element, no two
\* for the same element, in the order of the selection list, which is the
\* order the elements were added in
C23_OneMessagePerClick ==
    click.handled
      => /\ Len(broadcast) = 1
         /\ Len(broadcast[1]) = Len(selectedEls)
         /\ \A i \in 1..Len(selectedEls) : broadcast[1][i].el = selectedEls[i]
         /\ \A i, k \in 1..Len(selectedEls) :
              selectedEls[i] = selectedEls[k] => i = k
         /\ \A i, k \in 1..Len(selectedEls) :
              (/\ i < k
               /\ selectedEls[i] \in Range(click.before)
               /\ selectedEls[k] \in Range(click.before))
                => IndexOf(click.before, selectedEls[i])
                     < IndexOf(click.before, selectedEls[k])

\* a click that makes the selection three elements long
C23_Witness ==
    /\ click.handled
    /\ click.multi
    /\ Len(click.before) = 2
    /\ Len(selectedEls) = 3
    /\ Len(broadcast) = 1
    /\ broadcast[1] = <<[el |-> selectedEls[1]], [el |-> selectedEls[2]],
                        [el |-> selectedEls[3]]>>

\* C24: after the listener has handled a canvas:clearSelection message, no
\* element bears the selection marker, the selection is empty, no element
\* is hovered, and no selection message was posted
C24_ClearSelectionLeavesIdle ==
    (received.handled /\ received.msg = Data("canvas:clearSelection"))
      => /\ selMarks = {}
         /\ selectedEls = <<>>
         /\ hoveredEl = 0
         /\ hoverMarks = {}
         /\ broadcast = <<>>

(***************************************************************************)
(* App.jsx: the message handler of the host window, next to the store      *)
(* operations that open, close and activate pages.                         *)
(***************************************************************************)
\* the payloads of the canvas:selection messages that reach the host
HostPayloads == Payloads \cup {<<>>, <<[selector |-> TagSel("p")]>>}

\* the message events that reach the host window
HostMessages ==
    {NoHostData, HostData(Undefined, <<>>), HostData("", <<>>),
     HostData("canvas:clearSelection", <<>>)}
    \cup {HostData("canvas:selection", payload) : payload \in HostPayloads}

\* e.source: the iframe mounted for the page of that id, open or not; 0 is
\* a window that is the iframe of no page
Sources == 0..MaxPages

\* a handler that gives the payload to the active page, whatever the source
HostMessageToActive(msg, source) ==
    /\ IF msg.data /\ msg.type = "canvas:selection"
       THEN selectedElements' = msg.payload
       ELSE UNCHANGED selectedElements
    /\ hostMsg' = [handled |-> TRUE, msg |-> msg, source |-> source,
                   before |-> HostState(pages, activePageId, selectedElements),
                   after |-> HostState(pages, activePageId, selectedElements')]
    /\ last' = NoTurn
    /\ UNCHANGED <<pages, activePageId, chatHistory, streamingPageId,
                   pageIdCounter, streams, abortRef, posted, turns, text,
                   parsed, applied, engineVars, bridgeVars, synth>>

\* a handler that routes every message with data, whatever its type
HostMessageAnyType(msg, source) ==
    /\ IF msg.data /\ source \in PageIds(pages)
       THEN /\ activePageId' = source
            /\ selectedElements' = msg.payload
       ELSE UNCHANGED <<activePageId, selectedElements>>
    /\ hostMsg' = [handled |-> TRUE, msg |-> msg, source |-> source,
                   before |-> HostState(pages, activePageId, selectedElements),
                   after |-> HostState(pages, activePageId', selectedElements')]
    /\ last' = NoTurn
    /\ UNCHANGED <<pages, chatHistory, streamingPageId, pageIdCounter, streams,
                   abortRef, posted, turns, text, parsed, applied, engineVars,
                   bridgeVars, synth>>

\* the handler of App (lines 394-412) for one message event: the loop over
\* the pages finds the page whose registered iframe is the source
HostMessage(msg, source) ==
    /\ IF /\ msg.data
          /\ msg.type \notin {Undefined, ""}
          /\ msg.type = "canvas:selection"
          /\ source \in PageIds(pages)
       THEN /\ activePageId' = source
            /\ selectedElements' = msg.payload
       ELSE UNCHANGED <<activePageId, selectedElements>>
    /\ hostMsg' = [handled |-> TRUE, msg |-> msg, source |-> source,
                   before |-> HostState(pages, activePageId, selectedElements),
                   after |-> HostState(pages, activePageId', selectedElements')]
    /\ last' = NoTurn
    /\ UNCHANGED <<pages, chatHistory, streamingPageId, pageIdCounter, streams,
                   abortRef, posted, turns, text, parsed, applied, engineVars,
                   bridgeVars, synth>>

NextHost ==
    \/ \E msg \in HostMessages : \E source \in Sources : HostMessage(msg, source)
    \/ \E id \in PageIds(pages) : SetActivePage(id)
    \/ AddPage
    \/ \E id \in PageIds(pages) : DeletePage(id)

\* the host window receiving messages while pages are opened and closed
SpecHost == Init /\ [][NextHost]_vars

(***************************************************************************)
(* Claims about the host window (SpecHost)                                 *)
(***************************************************************************)
\* C25: once the handler has handled a canvas:selection message whose
\* source is the iframe of an open page, that page is the active page and
\* selectedElements is the payload of the message, whichever page was
\* active before
C25_SelectionRoutedToSourcePage ==
    (/\ hostMsg.handled
     /\ hostMsg.msg.type = "canvas:selection"
     /\ hostMsg.source \in PageIds(hostMsg.before.pages))
      => /\ hostMsg.after.activePageId = hostMsg.source
         /\ hostMsg.after.selectedElements = hostMsg.msg.payload
         /\ hostMsg.after.pages = hostMsg.before.pages

\* a message from the iframe of a page that was not the active one
C25_Witness ==
    /\ hostMsg.handled
    /\ hostMsg.msg.type = "canvas:selection"
    /\ hostMsg.msg.payload # <<>>
    /\ hostMsg.source \in PageIds(hostMsg.before.pages)
    /\ hostMsg.before.activePageId # hostMsg.source
    /\ activePageId = hostMsg.source
    /\ selectedElements = hostMsg.msg.payload

(***************************************************************************)
(* Both ends of the message protocol: the handler of App in the host       *)
(* window and the message listener of the script in one iframe.            *)
(***************************************************************************)
NextMessages ==
    \/ \E msg \in HostMessages : \E source \in Sources : HostMessage(msg, source)
    \/ AddPage
    \/ \E el \in 1..MaxElements : Click(el, FALSE)
    \/ ClearSelectionMessage
    \/ \E msg \in StrayData : ContextMessage(msg)

SpecMessages == Init /\ [][NextMessages]_vars

\* C26: a message the host handles that has no data, no type, a type other
\* than canvas:selection, or a source that is the iframe of no open page,
\* leaves the pages, the active page and selectedElements as they were; a
\* message the iframe handles that is not canvas:clearSelection leaves its
\* selection and its selection markers as they were
C26_StrayMessagesIgnored ==
    /\ (/\ hostMsg.handled
        /\ \/ ~hostMsg.msg.data
           \/ hostMsg.msg.type # "canvas:selection"
           \/ hostMsg.source \notin PageIds(hostMsg.before.pages))
         => hostMsg.after = hostMsg.before
    /\ (/\ received.handled
        /\ ~(received.msg.data /\ received.msg.type = "canvas:clearSelection"))
         => /\ selectedEls = received.before
            /\ selMarks = received.marks

\* a selection message from a window that is no page's iframe reached the
\* host while elements were selected, and a message of another type
\* reached the iframe while an element was selected
C26_Witness ==
    /\ hostMsg.handled
    /\ hostMsg.msg.type = "canvas:selection"
    /\ hostMsg.msg.payload # hostMsg.before.selectedElements
    /\ hostMsg.source \notin PageIds(hostMsg.before.pages)
    /\ selectedElements = hostMsg.before.selectedElements
    /\ selectedElements # <<>>
    /\ received.handled
    /\ received.msg = Data("canvas:selection")
    /\ received.before # <<>>
    /\ selectedEls = received.before

(***************************************************************************)
(* Claims about the selection of the host after a document changed (Spec)  *)
(***************************************************************************)
\* C27: every step that changes the document of a page, be it the end of
\* a chat turn that applied a patch list or a full document or a style edit
\* of the properties panel, leaves selectedElements empty
C27_SelectionEmptyAfterMutation ==
    [][(\E i \in 1..Len(pages) :
          /\ i <= Len(pages')
          /\ pages'[i].id = pages[i].id
          /\ pages'[i].html # pages[i].html)
         => selectedElements' = <<>>]_vars

(***************************************************************************)
(* selectionBridge.js: getSelector, and the selector it returns resolved   *)
(* by _sel against the document of the element.                            *)
(***************************************************************************)
\* an identifier in the text of a selector: its characters, written with
\* escapes or without
Ident(chars, escaped) == [chars |-> chars, escaped |-> escaped]

\* the identifiers of the model that are no CSS identifier as they stand:
\* one starts with a digit, one holds a dot
NeedEscape == {"1st", "a.b"}

\* an identifier written as it stands
CSSescapeNot(id) == Ident(id, FALSE)

\* CSS.escape(id)
CSSescape(id) == Ident(id, id \in NeedEscape)

\* the parts of the text of a selector: #ident, tag, tag:nth-of-type(idx)
HashPart(ident) == [part |-> "hash", ident |-> ident, idx |-> 0]
TagPart(tag) == [part |-> "tag", ident |-> Ident(tag, FALSE), idx |-> 0]
NthPart(tag, idx) == [part |-> "nth", ident |-> Ident(tag, FALSE), idx |-> idx]

\* parts.join(sep)
Join(parts, sep) == [sep |-> sep, parts |-> parts]

\* document.body: the index of the body element, 0 when there is none
Body(t) ==
    IF \E i \in 1..Len(t) : t[i].tag = "body" /\ t[i].depth = 1
    THEN Min({i \in 1..Len(t) : t[i].tag = "body" /\ t[i].depth = 1})
    ELSE 0

\* a level that is always written as the bare tag
LevelPartBareTag(t, cur) == TagPart(t[cur].tag)

\* lines 202-217: the part for a level without id; tag is the lower-case
\* tagName of the element
LevelPart(t, cur) ==
    IF Parent(t, cur) # 0 /\ Cardinality(SameTagSiblings(t, cur)) > 1
    THEN NthPart(t[cur].tag, RankOfType(t, cur))
    ELSE TagPart(t[cur].tag)

\* an ascent that does not look at the id of the levels
RECURSIVE AscendIgnoringIds(_, _, _)
AscendIgnoringIds(t, cur, parts) ==
    IF cur = 0 \/ cur = Body(t) \/ cur = 1
    THEN Join(<<TagPart("body")>> \o parts, " > ")
    ELSE AscendIgnoringIds(t, Parent(t, cur), <<LevelPart(t, cur)>> \o parts)

\* the while loop of getSelector (lines 192-221) from cur on, and the
\* return after it
RECURSIVE Ascend(_, _, _)
Ascend(t, cur, parts) ==
    IF cur = 0 \/ cur = Body(t) \/ cur = 1
    THEN Join(<<TagPart("body")>> \o parts, " > ")
    ELSE IF t[cur].id # ""
    THEN Join(<<HashPart(CSSescape(t[cur].id))>> \o parts, " > ")
    ELSE Ascend(t, Parent(t, cur), <<LevelPart(t, cur)>> \o parts)

\* getSelector(el) in the document t; el = 0 is no element
getSelector(t, el) ==
    IF el = 0 THEN Join(<<TagPart("body")>>, " > ")
    ELSE IF el = Body(t) THEN Join(<<TagPart("body")>>, " > ")
    ELSE IF el = 1 THEN Join(<<TagPart("html")>>, " > ")
    ELSE Ascend(t, el, <<>>)

\* what querySelector reads one part of the text as
ParsePart(p) ==
    CASE p.part = "hash" -> Simple("id", p.ident.chars)
      [] p.part = "nth" -> NthOfType(p.ident.chars, p.idx)
      [] OTHER -> Simple("tag", p.ident.chars)

\* what querySelector reads the text of a selector as: an identifier that
\* needs escapes and has none makes the text another selector, or none
ParseSelector(s) ==
    IF \E i \in 1..Len(s.parts) :
          ~s.parts[i].ident.escaped /\ s.parts[i].ident.chars \in NeedEscape
    THEN InvalidSel
    ELSE Sel(IF s.sep = " > " THEN ">" ELSE " ",
             [i \in 1..Len(s.parts) |-> ParsePart(s.parts[i])])

\* a document whose elements below body have no id
PlainTree ==
    <<Element("html", 0, "", {}, NoText),
      Element("head", 1, "", {}, NoText),
      Element("body", 1, "", {}, NoText),
      Element("div", 2, "", {}, NoText),
      Element("p", 3, "", {}, "One"),
      Element("p", 3, "", {}, "Two"),
      Element("span", 3, "", {}, NoText),
      Element("b", 4, "", {}, "Bold"),
      Element("div", 2, "", {}, NoText),
      Element("p", 3, "", {}, "Three"),
      Element("ul", 3, "", {}, NoText),
      Element("li", 4, "", {}, "A"),
      Element("li", 4, "", {}, "B"),
      Element("p", 2, "", {}, "Four")>>

\* the identifiers given to elements
Ids == {"main", "1st"}

\* the documents getSelector is called in: without ids, with one id on any
\* element, and with two ids on nested elements
SelectorTrees ==
    {DefaultTree, ListTree, PlainTree}
    \cup {[PlainTree EXCEPT ![k].id = id] : k \in 1..Len(PlainTree), id \in Ids}
    \cup {[PlainTree EXCEPT ![4].id = "main", ![k].id = "a.b"] : k \in 5..8}

InitSelector ==
    /\ pages = <<createPage(1)>>
    /\ activePageId = 1
    /\ selectedElements = <<>>
    /\ chatHistory = [k \in {1} |-> <<>>]
    /\ streamingPageId = NoPage
    /\ pageIdCounter = 2
    /\ streams = {}
    /\ abortRef = 0
    /\ last = NoTurn
    /\ posted = {}
    /\ turns = 0
    /\ text = <<>>
    /\ parsed = Unset
    /\ applied = NotApplied
    /\ EngineAtRest
    /\ BridgeAtRest
    /\ HostAtRest
    /\ \E t \in SelectorTrees : \E el \in 1..Len(t) :
          synth = [NoSynthesis EXCEPT !.stage = "element", !.tree = t, !.el = el]

\* getSelector(el), called by broadcast for a selected element
GetSelector ==
    /\ synth.stage = "element"
    /\ synth' = [synth EXCEPT !.stage = "selector",
                              !.text = getSelector(synth.tree, synth.el)]
    /\ UNCHANGED <<storeVars, text, parsed, applied, engineVars, bridgeVars,
                   hostMsg>>

\* _sel and _selAll on the document with the selector getSelector returned
Resolve ==
    /\ synth.stage = "selector"
    /\ synth' = [synth EXCEPT
                   !.stage = "resolved",
                   !.resolved = _sel(synth.tree, ParseSelector(synth.text)),
                   !.matches = _selAll(synth.tree, ParseSelector(synth.text))]
    /\ UNCHANGED <<storeVars, text, parsed, applied, engineVars, bridgeVars,
                   hostMsg>>

NextSelector == GetSelector \/ Resolve

SpecSelector == InitSelector /\ [][NextSelector]_vars

(***************************************************************************)
(* Claims about getSelector (SpecSelector). The elements a selection can   *)
(* hold are the elements below body.                                       *)
(***************************************************************************)
\* the elements of t below body
BelowBody(t) == {i \in 1..Len(t) : Body(t) \in Ancestors(t, i)}

C29_SelectorResolvesToItsElement ==
    (/\ synth.stage = "resolved"
     /\ synth.el \in BelowBody(synth.tree)
     /\ \A i, k \in 1..Len(synth.tree) :
          (synth.tree[i].id # "" /\ synth.tree[i].id = synth.tree[k].id)
            => i = k)
      => /\ synth.resolved = synth.el
         /\ synth.matches = {synth.el}

\* the second of two paragraphs without id, below a div that has a sibling
C29_Witness ==
    /\ synth.stage = "resolved"
    /\ synth.tree = PlainTree
    /\ synth.tree[synth.el].tag = "p"
    /\ RankOfType(synth.tree, synth.el) = 2
    /\ Len(synth.text.parts) = 3
    /\ synth.text.parts[3] = NthPart("p", 2)
    /\ synth.resolved = synth.el
    /\ synth.matches = {synth.el}

\* C30: the selector of body is body and that of the root is html; for any
\* other element the parts are the levels from the element upward, top
\* first and joined with " > ": the nearest level with an id (the element
\* or an ancestor other than body and the root) is the first part, as #
\* and the escaped id, and no level above it is emitted; without such a
\* level the first part is body; every other level is its bare tag when no
\* sibling has its tag, else tag:nth-of-type(k) with k its rank from 1
\* among the siblings of its tag
C30_ChainStructure ==
    synth.stage \in {"selector", "resolved"} =>
      LET t == synth.tree
          el == synth.el
          parts == synth.text.parts
          levels == (Ancestors(t, el) \cup {el}) \ {1, Body(t)}
          withId == {l \in levels : t[l].id # ""}
          anchored == withId # {}
          top == IF anchored
                 THEN CHOOSE l \in withId :
                        \A m \in withId : t[m].depth <= t[l].depth
                 ELSE CHOOSE l \in levels :
                        \A m \in levels : t[l].depth <= t[m].depth
          emitted == {l \in levels : t[l].depth >= t[top].depth}
          shift == IF anchored THEN 0 ELSE 1
          pos(l) == t[l].depth - t[top].depth + 1 + shift
          twins(l) == {k \in 1..Len(t) :
                         /\ k # 1
                         /\ Parent(t, k) = Parent(t, l)
                         /\ t[k].tag = t[l].tag}
          rank(l) == Cardinality({k \in twins(l) : k <= l})
          plain(chars) == [chars |-> chars, escaped |-> FALSE]
      IN /\ synth.text.sep = " > "
         /\ el = Body(t) =>
              parts = <<[part |-> "tag", ident |-> plain("body"), idx |-> 0]>>
         /\ el = 1 =>
              parts = <<[part |-> "tag", ident |-> plain("html"), idx |-> 0]>>
         /\ el \notin {1, Body(t)} =>
              /\ Len(parts) = Cardinality(emitted) + shift
              /\ ~anchored =>
                   parts[1] = [part |-> "tag", ident |-> plain("body"),
                               idx |-> 0]
              /\ anchored =>
                   parts[1] = [part |-> "hash",
                               ident |-> [chars |-> t[top].id,
                                          escaped |-> t[top].id \in NeedEscape],
                               idx |-> 0]
              /\ \A l \in emitted \ withId :
                   parts[pos(l)] =
                     IF Cardinality(twins(l)) > 1
                     THEN [part |-> "nth", ident |-> plain(t[l].tag),
                           idx |-> rank(l)]
                     ELSE [part |-> "tag", ident |-> plain(t[l].tag),
                           idx |-> 0]

\* a chain anchored at an ancestor with an id, with a bare tag and an
\* nth-of-type part below it and levels above it that are not emitted
C30_Witness ==
    /\ synth.stage = "selector"
    /\ synth.tree[synth.el].id = ""
    /\ Len(synth.text.parts) = 3
    /\ synth.text.parts[1] = HashPart(Ident("main", FALSE))
    /\ synth.text.parts[2].part = "tag"
    /\ synth.text.parts[3].part = "nth"
    /\ synth.text.parts[3].idx = 2
    /\ Cardinality(Ancestors(synth.tree, synth.el)) = 4

(***************************************************************************)
(* PropertiesPanel.jsx: a style change on the selection of the active page *)
(***************************************************************************)
\* elements of one selection
MaxSelection == 3

\* the documents of the page the panel edits: one that needs nth-of-type
\* and id selectors, one with classes and text
PanelTrees == {[PlainTree EXCEPT ![4].id = "main"], ListTree}

\* the selections the bridge can hold: distinct elements below body, in
\* the order they were clicked
Selections(t) ==
    UNION {{s \in [1..n -> {i \in 1..Len(t) : Body(t) \in Ancestors(t, i)}] :
              \A i, k \in 1..n : s[i] = s[k] => i = k} : n \in 1..MaxSelection}

\* the payload of broadcast as the host stores it: the selector text
\* getSelector returned, read as querySelector reads it, with the element
\* the entry describes
SelectionPayload(t, els) ==
    [i \in 1..Len(els) |->
        [selector |-> ParseSelector(getSelector(t, els[i])), el |-> els[i]]]

\* the changes a field of the panel hands to applyStyle
PanelChanges ==
    {<<"color", "red">>, <<"backgroundColor", "red">>, <<"fontSize", "16px">>}

\* a map that keeps the first selector only
StyleOpsFirstOnly(selectors, property, value) ==
    <<OpReplaceStyle(selectors[1], property, value)>>

\* selectors.map(...) of applyStyle (lines 59-64)
StyleOps(selectors, property, value) ==
    [i \in 1..Len(selectors) |-> OpReplaceStyle(selectors[i], property, value)]

InitPanel ==
    /\ \E t \in PanelTrees : \E els \in Selections(t) :
          /\ pages = <<[createPage(1) EXCEPT
                          !.html = <<DocLex("<!DOCTYPE", "authored", t)>>]>>
          /\ selectedElements = SelectionPayload(t, els)
    /\ activePageId = 1
    /\ chatHistory = [k \in {1} |-> <<>>]
    /\ streamingPageId = NoPage
    /\ pageIdCounter = 2
    /\ streams = {}
    /\ abortRef = 0
    /\ last = NoTurn
    /\ posted = {}
    /\ turns = 0
    /\ text = <<>>
    /\ parsed = Unset
    /\ applied = NotApplied
    /\ EngineAtRest
    /\ BridgeAtRest
    /\ HostAtRest
    /\ SynthAtRest

\* applyStyle(selectors, property, value) called by a field of the panel
\* for the selection it renders (lines 149 and 163-188); docHtml, batch and
\* out record the call of applyDiff
StyleChange(property, value) ==
    LET page == FindPage(pages, activePageId)
        selectors == [i \in 1..Len(selectedElements) |->
                        selectedElements[i].selector]
        ops == StyleOps(selectors, property, value)
    IN  /\ selectedElements # <<>>
        /\ page # 0
        /\ ~out.done
        /\ docHtml' = pages[page].html
        /\ batch' = ops
        /\ out' = Ran(applyDiff(pages[page].html, ops))
        /\ pages' = updatePageHtml(pages, activePageId, out'.html)
        /\ last' = NoTurn
        /\ UNCHANGED <<activePageId, selectedElements, chatHistory,
                       streamingPageId, pageIdCounter, streams, abortRef,
                       posted, turns, text, parsed, applied, bridgeVars,
                       hostMsg, synth>>

NextPanel == \E c \in PanelChanges : StyleChange(c[1], c[2])

SpecPanel == InitPanel /\ [][NextPanel]_vars

\* C31: a style change of the panel on a selection of n distinct elements
\* of the active page hands applyDiff n replaceStyle operations, the i-th
\* with the selector of the i-th selected element and all with the
\* property and the value of the change, and in the document the page has
\* afterwards every selected element has that value for that property
C31_StyleOnEverySelectedElement ==
    out.done =>
      LET n == Len(selectedElements)
          after == parseFromString(pages[1].html)
      IN  /\ Len(batch) = n
          /\ \E c \in PanelChanges :
               \A i \in 1..n :
                 /\ batch[i].op = "replaceStyle"
                 /\ batch[i].selector = selectedElements[i].selector
                 /\ batch[i].property = c[1]
                 /\ batch[i].value = c[2]
                 /\ c \in after[selectedElements[i].el].style
          /\ pages[1].html = out.html
          /\ out.ok

\* three elements selected, one by its id and two by nth-of-type chains,
\* and the style is on all three and on no other element
C31_Witness ==
    /\ out.done
    /\ Len(selectedElements) = 3
    /\ \E i \in 1..3 : selectedElements[i].selector.parts[1].k = "id"
    /\ \E i \in 1..3 : Len(selectedElements[i].selector.parts) = 3
    /\ LET after == parseFromString(pages[1].html)
       IN  {k \in 1..Len(after) : <<"fontSize", "16px">> \in after[k].style}
             = {selectedElements[i].el : i \in 1..3}

(***************************************************************************)
(* Claims about the tokens of a stream (Spec)                              *)
(***************************************************************************)
\* C32: the step that handles the k-th token of the stream of an open page
\* P leaves the accumulated text and the last assistant message of P equal
\* to the first k tokens of the response one after the other, and changes
\* no page and not the selection
C32_TokenOnlyAppendsAndSurfaces ==
    [][\A s \in streams : \A s2 \in streams' :
         (s2.id = s.id /\ s2.rest # s.rest /\ s.pid \in PageIds(pages))
           => LET RECURSIVE FirstTokens(_, _)
                  FirstTokens(reply, k) ==
                      IF k = 0 THEN <<>>
                      ELSE FirstTokens(reply, k - 1) \o reply[k]
                  history == chatHistory'[s.pid]
                  assistants == {i \in 1..Len(history) :
                                   history[i].role = "assistant"}
                  lastAssistant == CHOOSE i \in assistants :
                                     \A m \in assistants : m <= i
              IN  /\ \E reply \in Replies \cup UnrecognizedReplies :
                        \E k \in 1..Len(reply) :
                          /\ s.rest = SubSeq(reply, k, Len(reply))
                          /\ s2.rest = SubSeq(reply, k + 1, Len(reply))
                          /\ s2.accumulated = FirstTokens(reply, k)
                          /\ assistants # {}
                          /\ history[lastAssistant].content
                               = FirstTokens(reply, k)
                  /\ pages' = pages
                  /\ selectedElements' = selectedElements
                  /\ activePageId' = activePageId]_vars

\* the second token of a response has been handled while another page is
\* the active one
C32_Witness ==
    \E s \in streams :
      /\ s.rest = <<>>
      /\ ~s.aborted
      /\ s.accumulated = <<Prose, FenceJson, JsonLex(PatchText), Fence>>
      /\ streamingPageId = s.pid
      /\ activePageId # s.pid
      /\ chatHistory[s.pid][2] = Message("assistant", s.accumulated)

(***************************************************************************)
(* selectionBridge.js: cleanOuterHTML                                      *)
(***************************************************************************)
HOVER_CLASS == "__ch__"
SEL_CLASS == "__cs__"

\* the document of the iframe with the marker classes the listeners have
\* put on the selected and the hovered elements
MarkedTree(t, selected, hovered) ==
    [i \in 1..Len(t) |->
        [t[i] EXCEPT !.classList =
            @ \cup (IF i \in selected THEN {SEL_CLASS} ELSE {})
              \cup (IF i = hovered THEN {HOVER_CLASS} ELSE {})]]

\* a cleaning that strips the classes from the cloned element only
cleanOuterHTMLOfRootOnly(t, el) ==
    [k \in 1..(SubtreeEnd(t, el) - el + 1) |->
        IF k = 1
        THEN [t[el] EXCEPT !.classList = @ \ {HOVER_CLASS, SEL_CLASS}]
        ELSE t[el + k - 1]]

\* cleanOuterHTML(el) (lines 267-278): the clone of the subtree of el, with
\* the two classes removed from the clone and from every descendant that
\* has one of them; the markup of the clone is the sequence of its elements
cleanOuterHTML(t, el) ==
    LET clone == SubSeq(t, el, SubtreeEnd(t, el))
        marked == {k \in 2..Len(clone) :
                     clone[k].classList \cap {HOVER_CLASS, SEL_CLASS} # {}}
    IN  [k \in 1..Len(clone) |->
           IF k = 1 \/ k \in marked
           THEN [clone[k] EXCEPT !.classList = @ \ {HOVER_CLASS, SEL_CLASS}]
           ELSE clone[k]]

\* the iframe shows ListTree; a selection and a hovered element (0 for
\* none) are in place, and broadcast is about to build the entry of one
\* element of the selection
InitMarkup ==
    /\ pages = <<createPage(1)>>
    /\ activePageId = 1
    /\ selectedElements = <<>>
    /\ chatHistory = [k \in {1} |-> <<>>]
    /\ streamingPageId = NoPage
    /\ pageIdCounter = 2
    /\ streams = {}
    /\ abortRef = 0
    /\ last = NoTurn
    /\ posted = {}
    /\ turns = 0
    /\ text = <<>>
    /\ parsed = Unset
    /\ applied = NotApplied
    /\ EngineAtRest
    /\ HostAtRest
    /\ click = NoClick
    /\ broadcast = <<>>
    /\ received = NoMessage
    /\ selectedEls \in Selections(ListTree)
    /\ hoveredEl \in {0} \cup {i \in 1..Len(ListTree) :
                                Body(ListTree) \in Ancestors(ListTree, i)}
    /\ selMarks = Range(selectedEls)
    /\ hoverMarks = {hoveredEl} \ {0}
    /\ \E i \in 1..Len(selectedEls) :
          synth = [NoSynthesis EXCEPT
                     !.stage = "element",
                     !.tree = MarkedTree(ListTree, selMarks, hoveredEl),
                     !.el = selectedEls[i]]

\* cleanOuterHTML(s) called by broadcast for a selected element; the
\* document is not written
CleanOuterHTML ==
    /\ synth.stage = "element"
    /\ synth' = [synth EXCEPT !.stage = "cleaned",
                              !.text = cleanOuterHTML(synth.tree, synth.el)]
    /\ UNCHANGED <<storeVars, text, parsed, applied, engineVars, bridgeVars,
                   hostMsg>>

NextMarkup == CleanOuterHTML

SpecMarkup == InitMarkup /\ [][NextMarkup]_vars

\* C33: the outerHTML of a payload entry has neither marker class on any
\* of its elements, whatever is selected and hovered, it differs from the
\* subtree of the selected element in the classes of its elements only and
\* there by the two marker classes only, and the elements of the document
\* still have their markers
C33_OuterHTMLWithoutMarkers ==
    synth.stage = "cleaned" =>
      LET live == synth.tree
          el == synth.el
          html == synth.text
      IN  /\ \A k \in 1..Len(html) :
               html[k].classList \cap {"__ch__", "__cs__"} = {}
          /\ Len(html) = SubtreeEnd(live, el) - el + 1
          /\ \A k \in 1..Len(html) :
               /\ html[k].classList = live[el + k - 1].classList
                                        \ {"__ch__", "__cs__"}
               /\ [html[k] EXCEPT !.classList = {}]
                    = [live[el + k - 1] EXCEPT !.classList = {}]
          /\ \A i \in 1..Len(live) :
               /\ "__cs__" \in live[i].classList <=> i \in Range(selectedEls)
               /\ "__ch__" \in live[i].classList <=> i = hoveredEl

\* the list is selected with one of its items, another item is hovered,
\* and the markup of the list has the class of the items only
C33_Witness ==
    /\ synth.stage = "cleaned"
    /\ synth.tree[synth.el].tag = "ul"
    /\ Len(selectedEls) = 2
    /\ \E i \in selMarks : synth.tree[i].tag = "li"
    /\ hoveredEl # 0
    /\ synth.tree[hoveredEl].tag = "li"
    /\ hoveredEl \notin selMarks
    /\ Len(synth.text) = 3
    /\ synth.text[1].classList = {}
    /\ synth.text[2].classList = {"item"}
    /\ synth.text[3].classList = {"item"}

(***************************************************************************)
(* ChatPanel.jsx: the message list handleSend hands to streamCompletion    *)
(***************************************************************************)
\* the histories a page has after earlier turns: none, a turn that ended
\* with a patch, a turn that failed, and a second turn stopped before its
\* first token
Histories ==
    {<<>>,
     <<Message("user", <<Prose>>),
       Message("assistant", <<Prose, FenceJson, JsonLex(PatchText), Fence>>)>>,
     <<Message("user", <<Prose>>), Message("assistant", <<ErrorLex>>)>>,
     <<Message("user", <<Prose>>),
       Message("assistant", <<Prose, FenceJson, JsonLex(PatchText), Fence>>),
       Message("user", <<Prose>>), Message("assistant", <<>>)>>}

InitSend ==
    /\ pages = <<createPage(1)>>
    /\ activePageId = 1
    /\ selectedElements \in {<<>>} \cup Payloads
    /\ \E h \in Histories : chatHistory = [k \in {1} |-> h]
    /\ streamingPageId = NoPage
    /\ pageIdCounter = 2
    /\ streams = {}
    /\ abortRef = 0
    /\ last = NoTurn
    /\ posted = {}
    /\ turns = 0
    /\ text = <<>>
    /\ parsed = Unset
    /\ applied = NotApplied
    /\ EngineAtRest
    /\ BridgeAtRest
    /\ HostAtRest
    /\ SynthAtRest

\* handleSend, up to the await of streamCompletion (lines 57-116), with
\* the messages array of the call kept in the stream
HandleSendMessages(input, reply) ==
    LET page == FindPage(pages, activePageId)
        pid == activePageId
        historyBefore == HistoryOf(chatHistory, pid)
    IN  IF SendRejected(input, page, streamingPageId)
        THEN UNCHANGED vars
        ELSE /\ turns < MaxTurns
             /\ chatHistory' =
                  pushMessage(pushMessage(chatHistory, pid,
                                          Message("user", <<Prose>>)),
                              pid, Message("assistant", <<>>))
             /\ streamingPageId' = pid
             /\ streams' = streams \cup
                  {[id |-> turns + Cardinality(streams) + 1, pid |-> pid,
                    currentHtml |-> pages[page].html, accumulated |-> <<>>,
                    rest |-> reply, aborted |-> FALSE,
                    messages |->
                      ApiMessages(historyBefore,
                                  buildUserMessage(input, selectedElements,
                                                   pages[page].html))]}
             /\ abortRef' = turns + Cardinality(streams) + 1
             /\ last' = NoTurn
             /\ UNCHANGED <<pages, activePageId, selectedElements,
                            pageIdCounter, posted, turns, harnessVars>>

NextSend ==
    \/ \E input \in {"", "make the title blue"} : \E reply \in Replies :
          HandleSendMessages(input, reply)
    \/ \E s \in streams : Token(s)
    \/ \E s \in streams : StreamDone(s)
    \/ \E s \in streams : StreamFail(s)
    \/ \E id \in PageIds(pages) : SetActivePage(id)
    \/ AddPage

SpecSend == InitSend /\ [][NextSend]_vars

\* C34: the step of a send that starts a stream hands the model the system
\* prompt, then one message for each message the history of the page had
\* before the step, with its role and content and in its order, then one
\* user message built from the new instruction; the list is two longer
\* than that history, so neither the pushed user turn nor the empty
\* assistant placeholder is in it
C34_MessagesAreHistoryThenNewTurn ==
    [][\A s \in {r \in streams' : \A q \in streams : q.id # r.id} :
         LET before == IF s.pid \in DOMAIN chatHistory
                       THEN chatHistory[s.pid] ELSE <<>>
             pushed == chatHistory'[s.pid]
             n == Len(before)
         IN  /\ Len(s.messages) = n + 2
             /\ s.messages[1] = [role |-> "system",
                                 content |-> <<[lex |-> "system-prompt"]>>]
             /\ \A i \in 1..n :
                  /\ s.messages[i + 1].role = before[i].role
                  /\ s.messages[i + 1].content = before[i].content
             /\ s.messages[n + 2].role = "user"
             /\ s.messages[n + 2].content[1].lex = "user-message"
             /\ s.messages[n + 2].content[1].request = "make the title blue"
             /\ Len(pushed) = n + 2
             /\ pushed[n + 1] = [role |-> "user", content |-> <<Prose>>]
             /\ pushed[n + 2] = [role |-> "assistant", content |-> <<>>]]_vars

\* a send on a page whose history has a finished turn and a stopped one,
\* with elements selected
C34_Witness ==
    \E s \in streams :
      /\ Len(s.messages) = 6
      /\ Len(chatHistory[s.pid]) = 6
      /\ s.messages[3].role = "assistant"
      /\ s.messages[3].content # <<>>
      /\ s.messages[5] = Message("assistant", <<>>)
      /\ s.messages[6].content[1].selected # <<>>
      /\ s.accumulated = <<>>

(***************************************************************************)
(* The selection of the iframe of page 1 and the selection of the host,    *)
(* while the active page changes.                                          *)
(***************************************************************************)
\* the handler of App (lines 394-412) taking the canvas:selection message
\* the iframe of page 1 posted last; here broadcast holds that message
\* until the host has handled it
RouteBroadcast ==
    /\ broadcast # <<>>
    /\ IF 1 \in PageIds(pages)
       THEN /\ activePageId' = 1
            /\ selectedElements' = broadcast[1]
       ELSE UNCHANGED <<activePageId, selectedElements>>
    /\ broadcast' = <<>>
    /\ last' = NoTurn
    /\ UNCHANGED <<pages, chatHistory, streamingPageId, pageIdCounter, streams,
                   abortRef, posted, turns, text, parsed, applied, engineVars,
                   selectedEls, click, hoveredEl, selMarks, hoverMarks,
                   received, hostMsg, synth>>

\* clicks in the iframe of page 1, the host taking their messages, and the
\* pages of the sidebar being opened and activated
NextSync ==
    \/ \E el \in 1..MaxElements, isMulti \in BOOLEAN : Click(el, isMulti)
    \/ \E isMulti \in BOOLEAN : ClickBlank(isMulti)
    \/ RouteBroadcast
    \/ \E id \in PageIds(pages) : SetActivePage(id)
    \/ AddPage

SpecSync == Init /\ [][NextSync]_vars

\* C35: while no canvas:selection message is waiting for the host,
\* selectedElements lists the elements selected in the iframe of the active
\* page, in their order (page 1's iframe is the one with clicks; no other
\* iframe has a selection); and a modified click in the iframe of page 1 on
\* an element that is not selected, made while another page is active and
\* the host has no selection, posts that element alone
C35_HostSelectionIsActiveIframeSelection ==
    /\ [](broadcast = <<>> =>
           selectedElements =
             IF activePageId = 1
             THEN [i \in 1..Len(selectedEls) |-> [el |-> selectedEls[i]]]
             ELSE <<>>)
    /\ [][(/\ click' # click
           /\ click'.handled
           /\ click'.multi
           /\ click'.el # 0
           /\ \A i \in 1..Len(selectedEls) : selectedEls[i] # click'.el
           /\ activePageId # 1
           /\ selectedElements = <<>>
           /\ broadcast = <<>>)
            => broadcast' = << <<[el |-> click'.el]>> >>]_vars


(***************************************************************************)
(* Claims about the end of a turn on a page that is not the active page    *)
(* (Spec)                                                                  *)
(***************************************************************************)
\* C36: the step in which the turn of page P ends with a patch list or a
\* full document applied, taken while another page is the active page,
\* leaves selectedElements as it was
C36_OtherPageSelectionKept ==
    [][(/\ last'.outcome # "none"
        /\ last'.type \in {"diff", "full"}
        /\ last'.pid # activePageId)
         => selectedElements' = selectedElements]_vars

(***************************************************************************)
(* Claims about the markers of the selection (SpecBridge)                  *)
(***************************************************************************)
\* C37: after any sequence of mouseover, mouseout, clicks (plain, modified,
\* on the blank area) and messages, the elements that bear the selection
\* marker are the elements of the selection list, and no element is in the
\* list twice
C37_MarkersAreTheSelection ==
    /\ selMarks = {selectedEls[i] : i \in 1..Len(selectedEls)}
    /\ \A i, k \in 1..Len(selectedEls) :
         selectedEls[i] = selectedEls[k] => i = k

\* a modified click has taken one of three selected elements out while
\* another element is hovered
C37_Witness ==
    /\ click.handled
    /\ click.multi
    /\ Len(click.before) = 3
    /\ Len(selectedEls) = 2
    /\ selMarks = {selectedEls[1], selectedEls[2]}
    /\ click.el \notin selMarks
    /\ hoveredEl = click.el
    /\ hoverMarks = {click.el}

(***************************************************************************)
(* The histories of the pages while pages are opened and deleted and a     *)
(* stream runs.                                                            *)
(***************************************************************************)
NextHistory ==
    \/ \E input \in {"", "make the title blue"} : \E reply \in Replies :
          HandleSend(input, reply)
    \/ \E s \in streams : Token(s)
    \/ \E s \in streams : StreamDone(s)
    \/ \E s \in streams : StreamFail(s)
    \/ AddPage
    \/ \E id \in PageIds(pages) : DeletePage(id)

SpecHistory == Init /\ [][NextHistory]_vars

\* C38: in every reachable state the keys of chatHistory are the ids of the
\* pages of the store, whatever the order in which pages are added and
\* deleted, messages are pushed and the tokens of a stream arrive
C38_HistoryKeysArePageIds ==
    DOMAIN chatHistory = {pages[i].id : i \in 1..Len(pages)}

(***************************************************************************)
(* store.js: the page list under addPage, deletePage, renamePage and       *)
(* setActivePage, next to the message handler of App.                      *)
(***************************************************************************)
\* the names typed into the sidebar
PageNames == {"Home"}

\* the ids deletePage and renamePage are called with: the ids the counter
\* can hand out, and 0 for an id of no page
AnyIds == 0..(MaxPages + 1)

\* the pages, histories, active page and selection of the store
PageState(ps, ch, active, sel) ==
    [pages |-> ps, chatHistory |-> ch, activePageId |-> active,
     selectedElements |-> sel]

\* store.renamePage(id, name) (lines 132-135): only the name of the page of
\* that id changes
renamePage(ps, id, name) ==
    [i \in 1..Len(ps) |->
        IF ps[i].id = id THEN [ps[i] EXCEPT !.name = name] ELSE ps[i]]

RenamePage(id, name) ==
    /\ pages' = renamePage(pages, id, name)
    /\ last' = NoTurn
    /\ UNCHANGED <<activePageId, selectedElements, chatHistory,
                   streamingPageId, pageIdCounter, streams, abortRef, posted,
                   turns, harnessVars>>

\* store.deletePage(id), the store before and after the call kept in synth
DeletePageCall(id) ==
    LET after == deletePage(pages, chatHistory, activePageId,
                            selectedElements, id)
    IN  /\ pages' = after.pages
        /\ chatHistory' = after.chatHistory
        /\ activePageId' = after.activePageId
        /\ selectedElements' = after.selectedElements
        /\ synth' = [stage |-> "deletePage", el |-> id,
                     before |-> PageState(pages, chatHistory, activePageId,
                                          selectedElements),
                     after |-> after]
        /\ last' = NoTurn
        /\ UNCHANGED <<streamingPageId, pageIdCounter, streams, abortRef,
                       posted, turns, text, parsed, applied, engineVars,
                       bridgeVars, hostMsg>>

\* the payloads of the canvas:selection messages the iframes send
RoutedPayloads == {<<>>, <<[selector |-> TagSel("p")]>>}

\* the handler of App (lines 394-412) for a canvas:selection message: the
\* page whose registered iframe is the source becomes the active page and
\* the payload becomes the selection; a source that is the iframe of no
\* page of the list changes nothing
RoutedSelection(payload, source) ==
    /\ IF source \in PageIds(pages)
       THEN /\ activePageId' = source
            /\ selectedElements' = payload
       ELSE UNCHANGED <<activePageId, selectedElements>>
    /\ last' = NoTurn
    /\ UNCHANGED <<pages, chatHistory, streamingPageId, pageIdCounter, streams,
                   abortRef, posted, turns, harnessVars>>

NextPages ==
    \/ AddPage
    \/ \E id \in AnyIds : DeletePageCall(id)
    \/ \E id \in AnyIds : \E name \in PageNames : RenamePage(id, name)
    \/ \E id \in PageIds(pages) : SetActivePage(id)
    \/ \E payload \in RoutedPayloads : \E source \in Sources :
          RoutedSelection(payload, source)

\* the sidebar and the iframes acting on the page list
SpecPages == Init /\ [][NextPages]_vars

\* C39: whatever addPage, deletePage with any id, renamePage, setActivePage
\* on an existing page and routed selection messages have done, the page
\* list is not empty, no two pages have the same id and activePageId is the
\* id of a page of the list; a deletePage called while one page remains
\* leaves the pages, the histories, the active page and the selection as
\* they were
C39_PageListInvariant ==
    /\ Len(pages) >= 1
    /\ \A i, j \in 1..Len(pages) : pages[i].id = pages[j].id => i = j
    /\ activePageId \in PageIds(pages)
    /\ (synth.stage = "deletePage" /\ Len(synth.before.pages) = 1)
         => synth.after = synth.before

\* a deletePage of the only remaining page, itself the survivor of an
\* earlier deletePage, has been called and the page has been renamed
C39_Witness ==
    /\ synth.stage = "deletePage"
    /\ Len(synth.before.pages) = 1
    /\ synth.el = synth.before.pages[1].id
    /\ synth.el = synth.before.activePageId
    /\ synth.el > 1
    /\ Len(pages) = 1
    /\ pages[1].name \in PageNames

====
